---- MODULE Spec2Model ----
(***************************************************************************)
(* The slot-based portfolio simulator of                                   *)
(* src/quanttrade/models_2.0/backtest_advanced.py (main, the daily loop),  *)
(* as a state machine: one action per numbered step of the loop body;      *)
(* beside it the indicator function of the same file, the loop of          *)
(* backtest_optimized.py as operators on the same state, and the           *)
(* single-position engine of src/quanttrade/backtest/engine.py.            *)
(*                                                                         *)
(* Money and prices are fixed-point integers in millionths (UNIT); rates   *)
(* (commission, slippage, stop-loss, take-profit) are in thousandths (PM). *)
(* Every price the loop computes from a whole-number bar price is exact at *)
(* this scale.                                                             *)
(***************************************************************************)
EXTENDS Integers, Sequences, FiniteSets, TLC

PM == 10 * 100
UNIT == PM * PM

\* ===== CONFIG (backtest_advanced.py 20-41), rates in thousandths =====
HORIZON == 20
STOP_LOSS_PM == -50
TAKE_PROFIT_PM == 100
COMMISSION_PM == 2
SLIPPAGE_BUY_PM == 10
SLIPPAGE_SELL_PM == 5

\* Scaled settings: the source runs with MAX_POSITIONS = 5, TOP_K = 5 and
\* INITIAL_CAPITAL = 100_000; the model keeps the slot count and the candidate
\* pool below the size of its symbol universe, and the capital small enough
\* for a few shares per slot.
MAX_POSITIONS == 2
TOP_K == 3
INITIAL_CAPITAL == 170

\* Literals of the exit rules (main, step 3)
PERF_FAIL_MIN_DAYS == 8
PERF_FAIL_RET_PM == -20
STAGNATION_MIN_HOLD_DAYS == 10
STAGNATION_COUNT == 3
STAGNATION_RET_PM == 30
WEAKNESS_MIN_HOLD_DAYS == 5

\* gpt_snapshot.py 28: the patience window of the strategy's rule book
PATIENCE_DAYS == 8

\* Python's None for exit_planned_date (dates are 1..dates) and for the reason
None == 0
NoReason == "None"

\* Windows of calculate_stagnation_indicators
ATR_WINDOW == 14
SMA_WINDOW == 20
STAGNANT_WINDOW == 3
RS_WINDOW == 5
\* NaN of a rolling window that is not full yet (every comparison with it fails)
NaN == -1

\* ===== Bounds of the model =====
\* trading days of a test set, by the kind of feed
MixedDays == 2
SoloDays == 5
TightDays == 2
RotateDays == 3
\* rows of a symbol's history in the indicator specification
SeriesRows == 24
RegimeDays == 23
\* rows of history before the test set in a regime feed
Warmup == 22
\* the day a sliding history steps down, the day the score order reverses
SlideDay == 4
FlipDay == 5

Symbols == {"A", "B", "C", "D"}

VARIABLES
  feed,           \* the data set the run was started on (never changes)
  dates,          \* len(dates): number of trading days of the test set
  dt,             \* the date the loop is processing (index into dates)
  pc,             \* the step of the loop body about to run
  cash,
  portfolio,      \* list of open positions
  trade_log,
  equity_curve,
  today_data,     \* rows of dt, indexed by symbol (DOMAIN = today_data.index)
  next_day_data,  \* what step 4 read of next_dt: symbol -> [bar, open]
  reads,          \* dates of the rows read by the step that just ran
  \* BacktestEngine.run_backtest (backtest/engine.py); its cash is cash
  results,        \* the frame: rows [price_open, price_close, prediction]
  row_i,          \* i: the row the loop of run_backtest is at (from 0)
  position,       \* 0: no position, 1: long position
  held_shares,    \* shares, in thousandths of a share
  trades,         \* self.trades
  portfolio_value \* self.portfolio_value

\* the state of run_backtest, idle while the slot-based loop runs
engine == <<results, row_i, position, held_shares, trades, portfolio_value>>
\* the state of the slot-based loop, idle while run_backtest runs
loop == <<feed, dates, dt, portfolio, trade_log, equity_curve,
          today_data, next_day_data, reads>>

vars == <<feed, dates, dt, pc, cash, portfolio, trade_log, equity_curve,
          today_data, next_day_data, reads, engine>>

NoEngine ==
  /\ results = <<>> /\ row_i = 0 /\ position = 0 /\ held_shares = 0
  /\ trades = <<>> /\ portfolio_value = <<>>

\* ---------------------------------------------------------------- arithmetic

\* floor(x * pm / PM) without leaving the 32-bit range
Scale(x, pm) == (x \div PM) * pm + ((x % PM) * pm) \div PM

\* a return price/entry - 1 kept as an exact fraction
Ret(price, entry) == [num |-> price - entry, den |-> entry]
\* ceiling(x * pm / PM)
ScaleUp(x, pm) == -Scale(-x, pm)
\* ret < pm/PM, ret >= pm/PM, ret <= pm/PM, exactly (prices are integers)
RetLess(ret, pm) == ret.num + ret.den < ScaleUp(ret.den, PM + pm)
RetAtLeast(ret, pm) == ret.num + ret.den >= ScaleUp(ret.den, PM + pm)
RetAtMost(ret, pm) == ret.num + ret.den <= Scale(ret.den, PM + pm)

\* variant: the element stays
Pop_Keep(s, i) == s
\* main 193 and 245: portfolio.pop(i)
Pop(s, i) == [j \in 1..(Len(s) - 1) |-> IF j < i THEN s[j] ELSE s[j + 1]]

\* ------------------------------------------- calculate_stagnation_indicators
\* h is the rows of one symbol in the frame, oldest row first, rows [open,
\* high, low, close] in whole price units; n is the row the indicators are
\* computed for.

Abs(x) == IF x < 0 THEN -x ELSE x
Max(a, b) == IF a >= b THEN a ELSE b

\* advanced 76-79: tr = max(tr0, tr1, tr2). shift(1) is taken on the whole
\* frame: h may hold at index 0 the row that precedes the symbol's first row
\* in the frame (see Shifted); the first row of the frame has no previous
\* close and max skips the NaN.
TrueRange(h, n) ==
  LET tr0 == Abs(h[n].high - h[n].low)
  IN  IF n - 1 \notin DOMAIN h THEN tr0
      ELSE Max(tr0, Max(Abs(h[n].high - h[n - 1].close),
                        Abs(h[n].low - h[n - 1].close)))

RECURSIVE SumTrueRange(_, _, _)
SumTrueRange(h, n, w) ==
  IF w = 0 THEN 0 ELSE TrueRange(h, n) + SumTrueRange(h, n - 1, w - 1)

RECURSIVE SumClose(_, _, _)
SumClose(h, n, w) ==
  IF w = 0 THEN 0 ELSE h[n].close + SumClose(h, n - 1, w - 1)

\* variant: the volatility test never passes
NatrLow_Never(h, n) == FALSE
\* advanced 82-86: natr = atr / close * 100 < 2.5, atr the 14-row mean
NatrLow(h, n) ==
  /\ n >= ATR_WINDOW
  /\ 2 * 100 * SumTrueRange(h, n, ATR_WINDOW) < 5 * ATR_WINDOW * h[n].close

\* variant: the mean is taken over the rows there are (min_periods = 1)
TrendFlat_PartialWindow(h, n) ==
  LET w == IF n < SMA_WINDOW THEN n ELSE SMA_WINDOW
      sum == SumClose(h, n, w)
  IN  1000 * Abs(w * h[n].close - sum) < 15 * sum

\* advanced 89-90: trend_dev = |close - sma20| / sma20 < 0.015
TrendFlat(h, n) ==
  /\ n >= SMA_WINDOW
  /\ LET sum == SumClose(h, n, SMA_WINDOW)
     IN  1000 * Abs(SMA_WINDOW * h[n].close - sum) < 15 * sum

\* advanced 93
IsStagnant(h, n) == NatrLow(h, n) /\ TrendFlat(h, n)

\* variant: a running total in place of the three-row window
Stagnant3dCount_Cumulative(h, n) ==
  IF n < STAGNANT_WINDOW THEN NaN
  ELSE Cardinality({i \in 1..n : IsStagnant(h, i)})

\* advanced 96: rolling(3).sum()
Stagnant3dCount(h, n) ==
  IF n < STAGNANT_WINDOW THEN NaN
  ELSE Cardinality({i \in (n - STAGNANT_WINDOW + 1)..n : IsStagnant(h, i)})

\* advanced 101-102: pct_change(5) < -0.02
IsRsWeak(h, n) ==
  /\ n > RS_WINDOW
  /\ 1000 * h[n].close < 980 * h[n - RS_WINDOW].close

\* ------------------------------------------------------------------- the feed

P(n) == n * UNIT
Bar(o, l, c, s, w) ==
  [open |-> P(o), low |-> P(l), close |-> P(c),
   stagnant_3d_count |-> s, is_rs_weak |-> w]

\* The row of history h at n, with the indicator columns the loop reads
IndicatorRow(h, n) ==
  [open |-> P(h[n].open), low |-> P(h[n].low), close |-> P(h[n].close),
   stagnant_3d_count |-> Stagnant3dCount(h, n), is_rs_weak |-> IsRsWeak(h, n)]

\* Rows a held symbol can show in a mixed feed: flat, an intraday touch of
\* the stop, a gap down, a rally.
HeldBars ==
  { Bar(40, 40, 40, 3, FALSE), Bar(40, 38, 39, 0, FALSE),
    Bar(38, 38, 38, 0, TRUE),  Bar(45, 45, 45, 0, FALSE) }

FlatAt(o) == [open |-> o, low |-> o, close |-> o,
              stagnant_3d_count |-> 0, is_rs_weak |-> FALSE]

WithScore(b, sc) ==
  [open |-> b.open, low |-> b.low, close |-> b.close,
   stagnant_3d_count |-> b.stagnant_3d_count, is_rs_weak |-> b.is_rs_weak,
   score |-> sc]

HeldSymbols(pf) == {pf[i].symbol : i \in 1..Len(pf)}

\* The score orders of a day: A first and D last, or the reverse
Rankings ==
  { [A |-> 4, B |-> 3, C |-> 2, D |-> 1], [A |-> 1, B |-> 2, C |-> 3, D |-> 4] }

Reversed(r) == [s \in DOMAIN r |-> Cardinality(DOMAIN r) + 1 - r[s]]

\* A feed is the data set of a run:
\*   kind             which of the families below it belongs to
\*   days             the number of trading days of the test set
\*   daily, optional  the symbols with a row every day / on some days
\*   regime, ranking  the price history of each symbol and the score order of
\*                    the first days (regime feeds only)
NoRegime == [s \in {} |-> 0]

\* Four symbols priced around 40, B and C trade every day.
MixedFeed ==
  [kind |-> "mixed", days |-> MixedDays,
   daily |-> {"B", "C"}, optional |-> {"A", "D"},
   regime |-> NoRegime, ranking |-> NoRegime]

\* One symbol in reach of the capital (A); B, C and D trade every day at a
\* price no slot can pay, and only rank above or below A.
SoloFeed ==
  [kind |-> "solo", days |-> SoloDays,
   daily |-> {"B", "C", "D"}, optional |-> {"A"},
   regime |-> NoRegime, ranking |-> NoRegime]

\* All four trade every day; B is priced so that two shares cost just less
\* than what is left after a first entry at 40, and just more with commission.
TightOpen == 44060 * PM
TightFeed ==
  [kind |-> "tight", days |-> TightDays,
   daily |-> Symbols, optional |-> {},
   regime |-> NoRegime, ranking |-> NoRegime]

\* All four trade every day, B opening at 45 and the others at 40; A is
\* scored best on the first day and worst from the second; a held symbol
\* stays flat, rallies from 40 to 45 within the day or, opened at 45, touches
\* its stop.
RotateBars ==
  { Bar(40, 40, 40, 0, FALSE), Bar(40, 40, 45, 0, FALSE),
    Bar(45, 45, 45, 0, FALSE), Bar(45, 43, 44, 0, FALSE) }
RotateFeed ==
  [kind |-> "rotate", days |-> RotateDays,
   daily |-> Symbols, optional |-> {},
   regime |-> NoRegime, ranking |-> NoRegime]

\* Regime feeds: every symbol of the universe U has a fixed price history,
\* Warmup rows before the test set and one row per day of it, and its
\* indicator columns are those calculate_stagnation_indicators gives for that
\* history. A history repeats one bar, or slides from 40 to 39 on SlideDay.
\* The score order is the feed's ranking up to FlipDay and its reverse after.
CalmBar == [open |-> 40, high |-> 40, low |-> 40, close |-> 40]
RangeBar == [open |-> 40, high |-> 42, low |-> 40, close |-> 40]
SagBar == [open |-> 40, high |-> 40, low |-> 39, close |-> 39]
RallyBar == [open |-> 40, high |-> 45, low |-> 40, close |-> 45]
LowBar == [open |-> 39, high |-> 39, low |-> 39, close |-> 39]
Steady(b) == [before |-> b, after |-> b]
Slide == [before |-> CalmBar, after |-> LowBar]
Regimes == {Steady(CalmBar), Steady(RangeBar), Steady(SagBar), Steady(RallyBar), Slide}

History(k) ==
  [i \in 1..(Warmup + RegimeDays) |->
     IF i < Warmup + SlideDay THEN k.before ELSE k.after]

RegimeRow(k, d) == IndicatorRow(History(k), Warmup + d)

RegimeFeed(U, K, r) ==
  [kind |-> "regime", days |-> RegimeDays,
   daily |-> U, optional |-> {},
   regime |-> K, ranking |-> r]

\* The universe is A alone, or all four with C and D in a steady range.
RegimeFeeds ==
  UNION { { RegimeFeed(U, K, r) :
              K \in { k \in [U -> Regimes] :
                        \A s \in U \cap {"C", "D"} : k[s] = Steady(RangeBar) },
              r \in Rankings }
          : U \in {{"A"}, Symbols} }

\* A data set with no row in the test split, and a run whose model files or
\* data file are missing.
EmptyFeed ==
  [kind |-> "empty", days |-> 0, daily |-> {}, optional |-> {},
   regime |-> NoRegime, ranking |-> NoRegime]
AbsentFeed ==
  [kind |-> "absent", days |-> 0, daily |-> {}, optional |-> {},
   regime |-> NoRegime, ranking |-> NoRegime]

Feeds == {MixedFeed, SoloFeed, TightFeed, RotateFeed, EmptyFeed, AbsentFeed} \cup RegimeFeeds

\* The row of symbol s on day d while it is not held
Quiet(f, s, d) ==
  CASE f.kind = "regime" -> RegimeRow(f.regime[s], d)
    [] f.kind = "solo" /\ s # "A" -> FlatAt(P(200))
    [] f.kind = "tight" /\ s = "B" -> FlatAt(TightOpen)
    [] f.kind = "rotate" /\ s = "B" -> FlatAt(P(45))
    [] OTHER -> FlatAt(P(40))

\* The rows symbol s can show on day d while it is held
Bars(f, s, d) ==
  CASE f.kind = "regime" -> {RegimeRow(f.regime[s], d)}
    [] f.kind = "tight" /\ s = "B" -> {FlatAt(TightOpen)}
    [] f.kind = "rotate" -> RotateBars
    [] OTHER -> HeldBars

\* The opens of symbol s that step 4 can read for day d
Opens(f, s, d) ==
  CASE f.kind = "regime" -> {P(History(f.regime[s])[Warmup + d].open)}
    [] f.kind = "solo" -> IF s = "A" THEN {P(40), P(45)} ELSE {P(200)}
    [] f.kind = "tight" -> IF s = "B" THEN {TightOpen} ELSE {P(40)}
    [] f.kind = "rotate" -> IF s = "B" THEN {P(45)} ELSE {P(40)}
    [] OTHER -> {P(40), P(45)}

\* The score orders day d can have
RankingsOn(f, d) ==
  CASE f.kind = "regime" ->
         {IF d < FlipDay THEN f.ranking ELSE Reversed(f.ranking)}
    [] f.kind = "rotate" ->
         {IF d = 1 THEN [A |-> 4, B |-> 3, C |-> 2, D |-> 1]
                   ELSE [A |-> 1, B |-> 2, C |-> 3, D |-> 4]}
    [] OTHER -> Rankings

\* The rows of trading day d of feed f: the daily symbols and any of the
\* optional ones have a row, what step 4 already read of this day stays as
\* read, and the fields of a row that the loop never reads (those of a symbol
\* that is not held) are held at the quiet row.
DayRow(f, d, held, known, hb, s) ==
  IF s \in held THEN hb[s]
  ELSE IF s \in DOMAIN known /\ known[s].open # Quiet(f, s, d).open
    THEN FlatAt(known[s].open)
  ELSE Quiet(f, s, d)

DayData(f, d, held, known) ==
  UNION { UNION { { [s \in S |-> WithScore(DayRow(f, d, held, known, hb, s), sc[s])]
                    : hb \in { h \in [S \cap held -> UNION {Bars(f, s, d) : s \in S}] :
                                 \A s \in S \cap held :
                                    /\ h[s] \in Bars(f, s, d)
                                    /\ s \in DOMAIN known => h[s].open = known[s].open } }
                  : sc \in RankingsOn(f, d) }
          : S \in { T \in SUBSET (f.daily \cup f.optional) :
                      /\ f.daily \subseteq T
                      /\ \A s \in DOMAIN known : (s \in T) = known[s].bar } }

\* What step 4 can find for symbol s on day d, the next day
NextBars(f, s, d) ==
  (IF s \in f.optional THEN {[bar |-> FALSE, open |-> 0]} ELSE {})
    \cup {[bar |-> TRUE, open |-> o] : o \in Opens(f, s, d)}

NextDayData(f, S, d) ==
  { nd \in [S -> UNION {NextBars(f, s, d) : s \in S}] :
      \A s \in S : nd[s] \in NextBars(f, s, d) }

Unread == [s \in {} |-> [bar |-> FALSE, open |-> 0]]

\* ---------------------------------------------------------- 1) planned exits

\* variant: step 1 finds no exit due
PlannedExitDue_Never(pos) == FALSE
\* main 165: pos.get("exit_planned_date") == dt
PlannedExitDue(pos) == pos.exit_planned_date = dt

\* variant: sold at the raw open
PlannedExitPrice_NoSlippage(raw_open) == raw_open
\* main 173: exit_price = raw_open * (1 - SLIPPAGE_SELL)
PlannedExitPrice(raw_open) == Scale(raw_open, PM - SLIPPAGE_SELL_PM)

\* variant: no commission on the sale
NetRevenue_Gross(shares, exit_price) == shares * exit_price
\* main 175-178 and 227-230: revenue less commission
NetRevenue(shares, exit_price) ==
  LET revenue == shares * exit_price
      commission == Scale(revenue, COMMISSION_PM)
  IN  revenue - commission

\* variant: the record keeps no reason
Trade_Unlabelled(pos, exit_price, reason) ==
  [exit_date |-> dt, symbol |-> pos.symbol, entry_date |-> pos.entry_date,
   entry_price |-> pos.entry_price, exit_price |-> exit_price,
   return |-> Ret(exit_price, pos.entry_price),
   reason |-> NoReason, days_held |-> pos.days_held]
\* variant: the day of the exit is counted in the record
Trade_CountToday(pos, exit_price, reason) ==
  [exit_date |-> dt, symbol |-> pos.symbol, entry_date |-> pos.entry_date,
   entry_price |-> pos.entry_price, exit_price |-> exit_price,
   return |-> Ret(exit_price, pos.entry_price),
   reason |-> reason, days_held |-> pos.days_held + 1]
\* main 182-191 and 234-243: trade_log.append
Trade(pos, exit_price, reason) ==
  [exit_date |-> dt, symbol |-> pos.symbol, entry_date |-> pos.entry_date,
   entry_price |-> pos.entry_price, exit_price |-> exit_price,
   return |-> Ret(exit_price, pos.entry_price),
   reason |-> reason, days_held |-> pos.days_held]

\* main 163-193: for i in range(len(portfolio) - 1, -1, -1)
RECURSIVE PlannedExits(_, _)
PlannedExits(i, st) ==
  IF i = 0 THEN st
  ELSE LET pos == st.portfolio[i]
           sym == pos.symbol
       IN  IF PlannedExitDue(pos) /\ sym \in DOMAIN today_data
             THEN LET exit_price == PlannedExitPrice(today_data[sym].open)
                  IN  PlannedExits(i - 1,
                        [cash |-> st.cash + NetRevenue(pos.shares, exit_price),
                         portfolio |-> Pop(st.portfolio, i),
                         trade_log |-> Append(st.trade_log,
                                         Trade(pos, exit_price, pos.exit_reason_planned))])
             ELSE PlannedExits(i - 1, st)

Step1 ==
  /\ pc = "planned_exits"
  /\ LET st == PlannedExits(Len(portfolio),
                 [cash |-> cash, portfolio |-> portfolio, trade_log |-> trade_log])
     IN  /\ cash' = st.cash
         /\ portfolio' = st.portfolio
         /\ trade_log' = st.trade_log
  /\ pc' = "stop_loss"
  /\ reads' = {dt}
  /\ UNCHANGED <<engine, feed, dates, dt, equity_curve, today_data, next_day_data>>

\* --------------------------------------------------------------- 2) stop-loss

\* main 212: stop_level = entry * (1 + STOP_LOSS)
StopLevel(entry) == Scale(entry, PM + STOP_LOSS_PM)

\* main 217: low <= stop_level
StopHit(low, entry) == low <= StopLevel(entry)

\* variant: always filled at the stop level
StopFill_AtLevel(open_price, entry) == StopLevel(entry)
\* main 221-224: the gap rule
StopFill(open_price, entry) ==
  IF open_price <= StopLevel(entry) THEN open_price ELSE StopLevel(entry)

\* variant: the day is not counted
IncDays_Keep(pf, i) == pf
\* main 203 and 247: pos["days_held"] += 1
IncDays(pf, i) == [pf EXCEPT ![i].days_held = @ + 1]

\* main 198-247: for i in range(len(portfolio) - 1, -1, -1)
RECURSIVE StopLosses(_, _)
StopLosses(i, st) ==
  IF i = 0 THEN st
  ELSE LET pos == st.portfolio[i]
           sym == pos.symbol
       IN  IF sym \notin DOMAIN today_data
             THEN StopLosses(i - 1, [st EXCEPT !.portfolio = IncDays(@, i)])
             ELSE LET row == today_data[sym]
                      entry == pos.entry_price
                  IN  IF StopHit(row.low, entry)
                        THEN LET exit_price == StopFill(row.open, entry)
                             IN  StopLosses(i - 1,
                                   [cash |-> st.cash + NetRevenue(pos.shares, exit_price),
                                    portfolio |-> Pop(st.portfolio, i),
                                    trade_log |-> Append(st.trade_log,
                                                    Trade(pos, exit_price, "STOP_LOSS"))])
                        ELSE StopLosses(i - 1, [st EXCEPT !.portfolio = IncDays(@, i)])

Step2 ==
  /\ pc = "stop_loss"
  /\ LET st == StopLosses(Len(portfolio),
                 [cash |-> cash, portfolio |-> portfolio, trade_log |-> trade_log])
     IN  /\ cash' = st.cash
         /\ portfolio' = st.portfolio
         /\ trade_log' = st.trade_log
  /\ pc' = "exit_rules"
  /\ reads' = {dt}
  /\ UNCHANGED <<engine, feed, dates, dt, equity_curve, today_data, next_day_data>>

\* -------------------------------------------------------------- 3) exit rules

\* main 158: next_dt = dates[idx + 1] if idx + 1 < len(dates) else None
\* variant: the day itself
next_dt_Today == IF dt + 1 <= dates THEN dt ELSE None
\* main 157-158
next_dt == IF dt + 1 <= dates THEN dt + 1 ELSE None

\* main 255: today_data.sort_values("score", ascending=False)
RECURSIVE SortedByScore(_, _)
SortedByScore(td, S) ==
  IF S = {} THEN <<>>
  ELSE LET best == CHOOSE s \in S : \A t \in S : td[t].score <= td[s].score
       IN  <<best>> \o SortedByScore(td, S \ {best})

Reverse(seq) == [i \in 1..Len(seq) |-> seq[Len(seq) + 1 - i]]
\* variant: sorted ascending
today_sorted_Reversed == Reverse(SortedByScore(today_data, DOMAIN today_data))
today_sorted == SortedByScore(today_data, DOMAIN today_data)

\* variant: no cut
Head_Whole(seq, n) == seq
\* main 256 and 322: head(TOP_K) of a frame of any length
Head_(seq, n) == SubSeq(seq, 1, IF Len(seq) < n THEN Len(seq) ELSE n)
SeqSet(seq) == {seq[i] : i \in 1..Len(seq)}

\* variant: no symbol is protected
top_symbols_Empty == {}
\* main 256: top_symbols = list(today_sorted.head(TOP_K).index)
top_symbols == SeqSet(Head_(today_sorted, TOP_K))

\* main 277-316: the rule chain, first match wins
\* variant: the time stop is tested first
ExitRule_TimeFirst(pos, row, top) ==
  LET sym == pos.symbol
      days == pos.days_held
      ret_close == Ret(row.close, pos.entry_price)
  IN  IF days >= HORIZON
        THEN "TIME_EXIT"
      ELSE IF days >= PERF_FAIL_MIN_DAYS /\ RetLess(ret_close, PERF_FAIL_RET_PM)
         /\ sym \notin top
        THEN "PERF_FAIL_RELAXED"
      ELSE IF days > STAGNATION_MIN_HOLD_DAYS
              /\ row.stagnant_3d_count >= STAGNATION_COUNT
              /\ RetLess(ret_close, STAGNATION_RET_PM)
        THEN "STAGNATION_EXIT_RELAXED"
      ELSE IF days > WEAKNESS_MIN_HOLD_DAYS /\ row.is_rs_weak /\ sym \notin top
        THEN "WEAK_RS_EXIT"
      ELSE IF RetAtLeast(ret_close, TAKE_PROFIT_PM) /\ sym \notin top
        THEN "MODEL_TP"
      ELSE NoReason

\* main 277-316: rules A-E, each ending in continue
ExitRule(pos, row, top) ==
  LET sym == pos.symbol
      days == pos.days_held
      ret_close == Ret(row.close, pos.entry_price)
  IN  IF days >= PERF_FAIL_MIN_DAYS /\ RetLess(ret_close, PERF_FAIL_RET_PM)
         /\ sym \notin top
        THEN "PERF_FAIL_RELAXED"
      ELSE IF days > STAGNATION_MIN_HOLD_DAYS
              /\ row.stagnant_3d_count >= STAGNATION_COUNT
              /\ RetLess(ret_close, STAGNATION_RET_PM)
        THEN "STAGNATION_EXIT_RELAXED"
      ELSE IF days > WEAKNESS_MIN_HOLD_DAYS /\ row.is_rs_weak /\ sym \notin top
        THEN "WEAK_RS_EXIT"
      ELSE IF days >= HORIZON
        THEN "TIME_EXIT"
      ELSE IF RetAtLeast(ret_close, TAKE_PROFIT_PM) /\ sym \notin top
        THEN "MODEL_TP"
      ELSE NoReason

\* variant: the date is planned without its reason
PlanExit_DateOnly(pos) ==
  IF pos.exit_planned_date # None THEN pos
  ELSE IF next_dt = None \/ pos.symbol \notin DOMAIN today_data THEN pos
  ELSE LET reason == ExitRule(pos, today_data[pos.symbol], top_symbols)
       IN  IF reason = NoReason THEN pos
           ELSE [pos EXCEPT !.exit_planned_date = next_dt]

\* variant: the rules are evaluated whether or not a next trading day exists
PlanExit_AnyDay(pos) ==
  IF pos.exit_planned_date # None THEN pos
  ELSE IF pos.symbol \notin DOMAIN today_data THEN pos
  ELSE LET reason == ExitRule(pos, today_data[pos.symbol], top_symbols)
       IN  IF reason = NoReason THEN pos
           ELSE [pos EXCEPT !.exit_planned_date = next_dt,
                            !.exit_reason_planned = reason]

\* variant: planning an exit starts the count of days again
PlanExit_Recount(pos) ==
  IF pos.exit_planned_date # None THEN pos
  ELSE IF next_dt = None \/ pos.symbol \notin DOMAIN today_data THEN pos
  ELSE LET reason == ExitRule(pos, today_data[pos.symbol], top_symbols)
       IN  IF reason = NoReason THEN pos
           ELSE [pos EXCEPT !.exit_planned_date = next_dt,
                            !.exit_reason_planned = reason,
                            !.days_held = 0]

\* main 258-316: for pos in portfolio
PlanExit(pos) ==
  IF pos.exit_planned_date # None THEN pos
  ELSE IF next_dt = None \/ pos.symbol \notin DOMAIN today_data THEN pos
  ELSE LET reason == ExitRule(pos, today_data[pos.symbol], top_symbols)
       IN  IF reason = NoReason THEN pos
           ELSE [pos EXCEPT !.exit_planned_date = next_dt,
                            !.exit_reason_planned = reason]

Step3 ==
  /\ pc = "exit_rules"
  /\ portfolio' = [i \in 1..Len(portfolio) |-> PlanExit(portfolio[i])]
  /\ pc' = "entries"
  /\ reads' = {dt}
  /\ UNCHANGED <<engine, feed, dates, dt, cash, trade_log, equity_curve, today_data, next_day_data>>

\* ----------------------------------------------------------------- 4) entries

\* variant: bought at the raw open
EntryPrice_NoSlippage(raw_open) == raw_open
\* main 341: entry_price = raw_open * (1 + SLIPPAGE_BUY)
EntryPrice(raw_open) == Scale(raw_open, PM + SLIPPAGE_BUY_PM)

\* variant: the share count is cut down to what the cash pays for
Shares_Affordable(c, free_slots, entry_price) ==
  LET full == c \div (free_slots * entry_price)
      paid == c \div (entry_price + Scale(entry_price, COMMISSION_PM))
  IN  IF full <= paid THEN full ELSE paid
\* main 343-344: shares = int((cash / free_slots) / entry_price)
Shares(c, free_slots, entry_price) == c \div (free_slots * entry_price)

\* main 349-351
TotalCost(shares, entry_price) ==
  LET cost == shares * entry_price
      commission == Scale(cost, COMMISSION_PM)
  IN  cost + commission

\* main 330: the loop stops when no slot is free
SlotsFull(free_slots) == free_slots <= 0

\* variant: no held-symbol skip
Held_Never(pf, sym) == FALSE
\* main 333: any(p["symbol"] == sym for p in portfolio)
Held(pf, sym) == \E i \in 1..Len(pf) : pf[i].symbol = sym

\* variant: no affordability check
Affordable_Always(c, total_cost) == TRUE
\* main 353
Affordable(c, total_cost) == c >= total_cost

\* variant: a position is created with an exit planned for its entry day
NewPosition_Planned(sym, entry_price, shares) ==
  [symbol |-> sym, entry_price |-> entry_price, shares |-> shares,
   entry_date |-> next_dt, days_held |-> 0,
   exit_planned_date |-> next_dt, exit_reason_planned |-> "TIME_EXIT"]

NewPosition(sym, entry_price, shares) ==
  [symbol |-> sym, entry_price |-> entry_price, shares |-> shares,
   entry_date |-> next_dt, days_held |-> 0,
   exit_planned_date |-> None, exit_reason_planned |-> NoReason]

\* main 329-364: for sym, row in candidates.iterrows(); nd is next_day_data,
\* st.read the symbols whose next-day row the loop has looked up
RECURSIVE Entries(_, _, _, _)
Entries(k, candidates, nd, st) ==
  IF k > Len(candidates) THEN st
  ELSE LET sym == candidates[k] IN
       IF SlotsFull(st.free_slots) THEN st
       ELSE IF Held(st.portfolio, sym) THEN Entries(k + 1, candidates, nd, st)
       ELSE LET seen == [st EXCEPT !.read = @ \cup {sym}] IN
            IF ~nd[sym].bar THEN Entries(k + 1, candidates, nd, seen)
            ELSE LET entry_price == EntryPrice(nd[sym].open)
                     shares == Shares(st.cash, st.free_slots, entry_price)
                     total_cost == TotalCost(shares, entry_price)
                 IN  IF shares <= 0 THEN Entries(k + 1, candidates, nd, seen)
                     ELSE IF Affordable(st.cash, total_cost)
                       THEN Entries(k + 1, candidates, nd,
                              [cash |-> st.cash - total_cost,
                               portfolio |-> Append(st.portfolio,
                                               NewPosition(sym, entry_price, shares)),
                               free_slots |-> st.free_slots - 1,
                               read |-> seen.read])
                       ELSE Entries(k + 1, candidates, nd, seen)

\* variant: a position with a planned exit gives its slot up at once
FreeSlots_UnplannedOnly(pf) ==
  MAX_POSITIONS - Cardinality({i \in 1..Len(pf) : pf[i].exit_planned_date = None})
\* variant: one slot too many
FreeSlots_OneMore(pf) == MAX_POSITIONS + 1 - Len(pf)
\* main 319
FreeSlots(pf) == MAX_POSITIONS - Len(pf)

\* variant: the whole day is the candidate pool
Candidates_All == today_sorted
\* main 322: candidates = today_sorted.head(TOP_K)
Candidates == Head_(today_sorted, TOP_K)

\* variant: the candidates may come in either order
CandidateOrders_Either == {Candidates, Reverse(Candidates)}
\* main 329: candidates.iterrows() yields the rows in the order of the frame
CandidateOrders == {Candidates}

Step4 ==
  /\ pc = "entries"
  /\ \E candidates \in CandidateOrders :
     LET free_slots == FreeSlots(portfolio)
         st0 == [cash |-> cash, portfolio |-> portfolio,
                 free_slots |-> free_slots, read |-> {}]
     IN  IF free_slots > 0 /\ next_dt # None
           THEN \E nd \in NextDayData(feed, SeqSet(candidates), next_dt) :
                  LET st == Entries(1, candidates, nd, st0) IN
                  /\ cash' = st.cash
                  /\ portfolio' = st.portfolio
                  /\ next_day_data' = [s \in st.read |-> nd[s]]
                  /\ reads' = {dt, next_dt}
           ELSE /\ UNCHANGED <<cash, portfolio, next_day_data>>
                /\ reads' = {dt}
  /\ pc' = "equity"
  /\ UNCHANGED <<engine, feed, dates, dt, trade_log, equity_curve, today_data>>

\* ------------------------------------------------------------------ 5) equity

\* variant: a symbol without a bar is worth nothing today
CurrPrice_Zero(pos) ==
  IF pos.symbol \in DOMAIN today_data THEN today_data[pos.symbol].close
  ELSE 0

\* main 370-376
CurrPrice(pos) ==
  IF pos.symbol \in DOMAIN today_data THEN today_data[pos.symbol].close
  ELSE pos.entry_price

\* variant: the positions are left out of the equity
PortfolioValue_CashOnly(pf, i) == 0
\* main 369-376: portfolio_value += pos["shares"] * curr_price
RECURSIVE PortfolioValue(_, _)
PortfolioValue(pf, i) ==
  IF i = 0 THEN 0 ELSE PortfolioValue(pf, i - 1) + pf[i].shares * CurrPrice(pf[i])

\* variant: the day ends without an equity point
Step5_Skip ==
  /\ pc = "equity"
  /\ pc' = "next"
  /\ reads' = {dt}
  /\ UNCHANGED <<engine, feed, dates, dt, cash, portfolio, trade_log, equity_curve,
                 today_data, next_day_data>>

\* main 369-379: equity_curve.append({"date": dt, "equity": cash + port_val})
Step5 ==
  /\ pc = "equity"
  /\ equity_curve' = Append(equity_curve,
       [date |-> dt, equity |-> cash + PortfolioValue(portfolio, Len(portfolio))])
  /\ pc' = "next"
  /\ reads' = {dt}
  /\ UNCHANGED <<engine, feed, dates, dt, cash, portfolio, trade_log, today_data, next_day_data>>

\* ------------------------------------------------------------- the date loop

\* main 149-152: for dt in dates; today_data = test_grouped.get_group(dt)
NextDay ==
  /\ pc = "next"
  /\ dt < dates
  /\ dt' = dt + 1
  /\ today_data' \in DayData(feed, dt + 1, HeldSymbols(portfolio), next_day_data)
  /\ next_day_data' = Unread
  /\ pc' = "planned_exits"
  /\ reads' = {}
  /\ UNCHANGED <<engine, feed, dates, cash, portfolio, trade_log, equity_curve>>

\* main 381-387: the loop is over, reporting starts;
\* bt["equity"] of an empty frame raises KeyError
Finish ==
  /\ pc = "next"
  /\ dt = dates
  /\ pc' = IF Len(equity_curve) = 0 THEN "KeyError" ELSE "done"
  /\ UNCHANGED <<engine, feed, dates, dt, cash, portfolio, trade_log, equity_curve,
                 today_data, next_day_data, reads>>

NoRows == [s \in {} |-> FlatAt(0)]

\* main 113-147: the state when the loop starts on its first date, when it
\* has no date to start on, or when load_model_and_meta / read_csv has raised
Init ==
  /\ feed \in Feeds
  /\ dates = feed.days
  /\ dt = IF dates = 0 THEN 0 ELSE 1
  /\ pc = CASE feed.kind = "absent" -> "FileNotFoundError"
            [] feed.kind = "empty" -> "next"
            [] OTHER -> "planned_exits"
  /\ cash = INITIAL_CAPITAL * UNIT
  /\ portfolio = <<>>
  /\ trade_log = <<>>
  /\ equity_curve = <<>>
  /\ today_data \in IF dates = 0 THEN {NoRows} ELSE DayData(feed, 1, {}, Unread)
  /\ next_day_data = Unread
  /\ reads = {}
  /\ NoEngine

Next == Step1 \/ Step2 \/ Step3 \/ Step4 \/ Step5 \/ NextDay \/ Finish

Spec == Init /\ [][Next]_vars

\* Step 3 on its own, on one held position A bought at 40 and rows drawn to
\* either side of every threshold of the rule chain: days_held, the close,
\* the two indicator columns and A's place in the score order.
RuleDays == {5, 6, 8, 10, 11, 19, 20}
RuleCloses == {38, 39, 40, 41, 44, 45}
RuleCounts == {NaN, 2, 3}

RuleInit ==
  /\ feed = MixedFeed
  /\ dates = 2
  /\ dt = 1
  /\ pc = "exit_rules"
  /\ cash = 0
  /\ \E days \in RuleDays :
       portfolio = << [symbol |-> "A", entry_price |-> P(40), shares |-> 1,
                       entry_date |-> 1, days_held |-> days,
                       exit_planned_date |-> None,
                       exit_reason_planned |-> NoReason] >>
  /\ trade_log = <<>>
  /\ equity_curve = <<>>
  /\ \E c \in RuleCloses, n \in RuleCounts, w \in BOOLEAN, sc \in Rankings :
       today_data = [s \in Symbols |->
                       WithScore(IF s = "A" THEN Bar(c, c, c, n, w) ELSE FlatAt(P(40)),
                                 sc[s])]
  /\ next_day_data = Unread
  /\ reads = {}
  /\ NoEngine

RuleSpec == RuleInit /\ [][Step3]_vars

\* ---------------------------------------------------------------------------
\* calculate_stagnation_indicators followed by step 3, on drawn histories.
\* The data set has no rows before the test set: symbol A has one of the
\* series below, B, C and D a calm one, and the loop stands on row dt with A
\* held for a drawn number of days.

FiftyBar == [open |-> 50, high |-> 50, low |-> 50, close |-> 50]
FortyNineBar == [open |-> 49, high |-> 49, low |-> 49, close |-> 49]
EdgeBar == [open |-> 40, high |-> 41, low |-> 40, close |-> 40]
\* the rows at which a series changes its bar (1: it never changes)
ShiftRows == {1, 2, 21, 22}
SeriesKinds ==
  { [before |-> b.before, after |-> b.after, at |-> r] :
      b \in { Steady(CalmBar), Steady(EdgeBar), Steady(RangeBar), Slide,
              [before |-> FiftyBar, after |-> FortyNineBar] },
      r \in ShiftRows }
Series(k) == [i \in 1..SeriesRows |-> IF i < k.at THEN k.before ELSE k.after]
CalmSeries == Series([before |-> CalmBar, after |-> CalmBar, at |-> 1])
SeriesDays == {6, 11}

SeriesFeed(k, r) ==
  [kind |-> "series", days |-> SeriesRows,
   daily |-> Symbols, optional |-> {},
   regime |-> [s \in Symbols |-> IF s = "A" THEN Series(k) ELSE CalmSeries],
   ranking |-> r]

\* advanced 71: df.sort_values([SYMBOL_COL, DATE_COL])
SymbolOrder == <<"A", "B", "C", "D">>
Position(s) == CHOOSE i \in 1..Len(SymbolOrder) : SymbolOrder[i] = s

\* advanced 77-78: df[PRICE_COL].shift(1) is not grouped by symbol: the row
\* before a symbol's first row is the last row of the symbol sorted before it
Shifted(frame, s) ==
  IF Position(s) = 1 THEN frame[s]
  ELSE LET before == frame[SymbolOrder[Position(s) - 1]]
       IN  [i \in 0..Len(frame[s]) |-> IF i = 0 THEN before[Len(before)] ELSE frame[s][i]]

\* advanced 82-86: natr = atr / close * 100 as a fraction, NaN on a row with
\* fewer than 14 true ranges
Natr(h, n) ==
  IF n < ATR_WINDOW THEN [num |-> NaN, den |-> 1]
  ELSE [num |-> 100 * SumTrueRange(h, n, ATR_WINDOW), den |-> ATR_WINDOW * h[n].close]

\* advanced 86-102 and 125: the columns of row n that stay in the frame
FrameRow(h, n, sc) ==
  [open |-> P(h[n].open), low |-> P(h[n].low), close |-> P(h[n].close),
   natr |-> Natr(h, n),
   is_stagnant |-> IsStagnant(h, n),
   stagnant_3d_count |-> Stagnant3dCount(h, n), is_rs_weak |-> IsRsWeak(h, n),
   score |-> sc]

IndicatorInit ==
  /\ \E k \in SeriesKinds, r \in Rankings : feed = SeriesFeed(k, r)
  /\ dates = SeriesRows
  /\ dt \in 1..SeriesRows
  /\ pc = "indicators"
  /\ cash = 0
  /\ \E days \in SeriesDays :
       portfolio = << [symbol |-> "A", entry_price |-> P(40), shares |-> 1,
                       entry_date |-> 1, days_held |-> days,
                       exit_planned_date |-> None,
                       exit_reason_planned |-> NoReason] >>
  /\ trade_log = <<>>
  /\ equity_curve = <<>>
  /\ today_data = NoRows
  /\ next_day_data = Unread
  /\ reads = {}
  /\ NoEngine

\* main 120 and 150: df = calculate_stagnation_indicators(df), then the
\* rows of the date
CalcIndicators ==
  /\ pc = "indicators"
  /\ today_data' = [s \in Symbols |->
                     FrameRow(Shifted(feed.regime, s), dt, feed.ranking[s])]
  /\ pc' = "exit_rules"
  /\ UNCHANGED <<engine, feed, dates, dt, cash, portfolio, trade_log, equity_curve,
                 next_day_data, reads>>

IndicatorSpec == IndicatorInit /\ [][CalcIndicators \/ Step3]_vars

\* ---------------------------------------------------------------------------
\* backtest/engine.py: BacktestEngine.run_backtest, one action per iteration
\* of its loop and one for the last row. Money is in thousandths of a
\* currency unit, prices in whole units, shares in thousandths of a share.

\* engine.py 6: commission = 0.001, per mille
commission_pm == 1
\* engine.py 6: initial_capital, in whole currency units
initial_capital == 1000
\* the longest frame
EngineRows == 4

\* engine.py 40-47: a row of results; price_open and price_close come with
\* df, prediction with predictions
EngineBars ==
  { [price_open |-> 10, price_close |-> 10], [price_open |-> 10, price_close |-> 20],
    [price_open |-> 20, price_close |-> 20] }
ResultRows ==
  { [price_open |-> b.price_open, price_close |-> b.price_close, prediction |-> p,
     portfolio_value |-> initial_capital * PM] : b \in EngineBars, p \in {0, 1} }
Frames == UNION { [1..n -> ResultRows] : n \in 1..EngineRows }

NoLoop ==
  /\ feed = EmptyFeed /\ dates = 0 /\ dt = 0
  /\ portfolio = <<>> /\ trade_log = <<>> /\ equity_curve = <<>>
  /\ today_data = NoRows /\ next_day_data = Unread /\ reads = {}

\* engine.py 14-18 and 36-47: a fresh engine entering run_backtest
EngineInit ==
  /\ NoLoop
  /\ pc = "run_backtest"
  /\ results \in Frames
  /\ row_i = 0
  /\ cash = initial_capital * PM
  /\ position = 0
  /\ held_shares = 0
  /\ trades = <<>>
  /\ portfolio_value = <<>>

\* variant: a buy signal is taken whatever the position
BuySignal_AnyPosition(pred, pos) == pred = 1
\* engine.py 58
BuySignal(pred, pos) == pred = 1 /\ pos = 0
\* engine.py 65
SellSignal(pred, pos) == pred = 0 /\ pos = 1

\* engine.py 49-75: for i in range(len(results) - 1)
Iterate ==
  /\ pc = "run_backtest"
  /\ row_i < Len(results) - 1
  /\ LET current_price == results[row_i + 1].price_close
         pred == results[row_i + 1].prediction
         date == row_i
         next_open_price == results[row_i + 2].price_open
     IN  /\ IF BuySignal(pred, position)
               THEN /\ held_shares' = Scale(cash, PM - commission_pm) \div next_open_price
                    /\ cash' = 0
                    /\ position' = 1
                    /\ trades' = Append(trades,
                         [date |-> date, type |-> "BUY", price |-> next_open_price,
                          shares |-> held_shares'])
             ELSE IF SellSignal(pred, position)
               THEN /\ cash' = Scale(held_shares * next_open_price, PM - commission_pm)
                    /\ held_shares' = 0
                    /\ position' = 0
                    /\ trades' = Append(trades,
                         [date |-> date, type |-> "SELL", price |-> next_open_price,
                          shares |-> held_shares'])
             ELSE UNCHANGED <<cash, held_shares, position, trades>>
         /\ LET current_value == cash' + held_shares' * current_price
            IN  /\ results' = [results EXCEPT ![row_i + 1].portfolio_value = current_value]
                /\ portfolio_value' = Append(portfolio_value, current_value)
  /\ row_i' = row_i + 1
  /\ UNCHANGED <<pc, loop>>

\* engine.py 77-83: the last row is valued and the frame returned
HandleLastDay ==
  /\ pc = "run_backtest"
  /\ row_i >= Len(results) - 1
  /\ LET last_price == results[Len(results)].price_close
         final_value == cash + held_shares * last_price
     IN  /\ results' = [results EXCEPT ![Len(results)].portfolio_value = final_value]
         /\ portfolio_value' = Append(portfolio_value, final_value)
  /\ pc' = "returned"
  /\ UNCHANGED <<row_i, cash, position, held_shares, trades, loop>>

EngineSpec == EngineInit /\ [][Iterate \/ HandleLastDay]_vars

\* main 149: the for statement takes the next date (a NextDay step)
Advance == pc = "next" /\ dt < dates /\ dt' = dt + 1

\* main 149-387 is one sequential thread: the statement it stands at is
\* executed, so a step that can be taken is taken
FairSpec ==
  /\ Spec
  /\ WF_vars(Step1 \/ Step2 \/ Step3 \/ Step4 \/ Step5 \/ Finish)
  /\ WF_dt(Advance)

\* ==================================================================== claims

Min(a, b) == IF a <= b THEN a ELSE b

RECURSIVE SumOver(_, _)
SumOver(S, f) ==
  IF S = {} THEN 0
  ELSE LET x == CHOOSE y \in S : TRUE IN f[x] + SumOver(S \ {x}, f)

\* rank of a symbol by today's score, 1 the best, read off the scores
ScoreRank(s) ==
  1 + Cardinality({t \in DOMAIN today_data : today_data[t].score > today_data[s].score})
InTopK(s) == s \in DOMAIN today_data /\ ScoreRank(s) <= TOP_K

\* After step 4 of day dt: the positions it created (they are dated next_dt)
CreatedNow == {i \in 1..Len(portfolio) : portfolio[i].entry_date = next_dt}
PositionCost == [i \in 1..Len(portfolio) |->
                   TotalCost(portfolio[i].shares, portfolio[i].entry_price)]
\* ... and the cash and the free slots step 4 had when it came to rank k
CreatedFrom(k) == {i \in CreatedNow : ScoreRank(portfolio[i].symbol) >= k}
CashBefore(k) == cash + SumOver(CreatedFrom(k), PositionCost)
SlotsBefore(k) == MAX_POSITIONS - Len(portfolio) + Cardinality(CreatedFrom(k))
HeldBefore(s) == \E i \in 1..Len(portfolio) :
                   portfolio[i].symbol = s /\ i \notin CreatedNow
AfterEntries == pc = "equity" /\ next_dt # None

\* ---- C1
\* C1: after every step of every simulated day the number of open positions,
\* those already created for next-day entry included, is at most MAX_POSITIONS.
C1_SlotInvariant == Len(portfolio) <= MAX_POSITIONS

\* step 4 has just filled the last free slot and a candidate is left over
C1_LastSlotFilled ==
  /\ AfterEntries
  /\ CreatedNow # {}
  /\ Len(portfolio) = MAX_POSITIONS
  /\ \E s \in DOMAIN today_data : InTopK(s) /\ ~Held(portfolio, s)

\* ---- C2
\* C2: cash is never negative, after a planned-exit fill, a stop-loss fill or
\* an entry fill; and every entry step 4 filled cost (shares x fill x
\* (1 + COMMISSION)) no more than the cash held when it was filled.
C2_CashNonNegative ==
  /\ cash >= 0
  /\ AfterEntries =>
       \A i \in CreatedNow :
         PositionCost[i] <= CashBefore(ScoreRank(portfolio[i].symbol))

\* step 4 sized an order on the cash it had and then dropped it for its cost
C2_OrderRefused ==
  /\ AfterEntries
  /\ \E s \in DOMAIN next_day_data :
       /\ next_day_data[s].bar
       /\ ~Held(portfolio, s)
       /\ LET k == ScoreRank(s)
              entry_price == EntryPrice(next_day_data[s].open)
              shares == Shares(CashBefore(k), SlotsBefore(k), entry_price)
          IN  shares > 0 /\ TotalCost(shares, entry_price) > CashBefore(k)

\* ---- C3
\* C3: a symbol is in at most one open position; step 4 creates no position
\* for a symbol that is held, a planned but unfilled exit included.
C3_SymbolUnique ==
  \A i, j \in 1..Len(portfolio) :
     i # j => portfolio[i].symbol # portfolio[j].symbol

\* step 4 ran with a free slot while a held symbol with an exit pending was
\* among the candidates
C3_HeldCandidatePassed ==
  /\ AfterEntries
  /\ Len(portfolio) < MAX_POSITIONS
  /\ \E i \in 1..Len(portfolio) :
       /\ portfolio[i].exit_planned_date # None
       /\ InTopK(portfolio[i].symbol)

\* ---- C4
LowToday(t) == today_data[t.symbol].low
NewTrades == {k \in 1..Len(trade_log') : k > Len(trade_log)}
ClosedOnce ==
  \A k, m \in 1..Len(trade_log) :
     (/\ trade_log[k].symbol = trade_log[m].symbol
      /\ trade_log[k].exit_date = trade_log[m].exit_date) => k = m

\* C4 as stated: when a planned exit is due with a bar and the day's low is at
\* or under the stop level, the position is closed with reason STOP_LOSS; and
\* no position is closed twice on one day.
C4_StopLossPrecedence ==
  /\ ClosedOnce
  /\ \A k \in 1..Len(trade_log) :
       LET t == trade_log[k] IN
       (t.exit_date = dt /\ LowToday(t) <= StopLevel(t.entry_price))
         => t.reason = "STOP_LOSS"

\* C4, amended: step 1 runs first. A position whose planned exit is due and
\* whose symbol has a bar is closed by the planned-exit fill (open less
\* SLIPPAGE_SELL, stored reason) whatever the day's low; step 2 closes, with
\* STOP_LOSS, only positions step 1 left open; no position is closed twice on
\* one day.
C4_PlannedExitFirst ==
  /\ []ClosedOnce
  /\ [][ /\ pc = "planned_exits" =>
             \A i \in 1..Len(portfolio) :
                LET pos == portfolio[i] IN
                (pos.exit_planned_date = dt /\ pos.symbol \in DOMAIN today_data) =>
                  /\ \A j \in 1..Len(portfolio') : portfolio'[j].symbol # pos.symbol
                  /\ \E k \in NewTrades :
                       /\ trade_log'[k].symbol = pos.symbol
                       /\ trade_log'[k].reason = pos.exit_reason_planned
                       /\ trade_log'[k].exit_price =
                            Scale(today_data[pos.symbol].open, PM - SLIPPAGE_SELL_PM)
         /\ pc = "stop_loss" =>
             \A k \in NewTrades :
                /\ trade_log'[k].reason = "STOP_LOSS"
                /\ \E i \in 1..Len(portfolio) :
                     portfolio[i].symbol = trade_log'[k].symbol ]_vars

\* a planned exit was filled today although the low reached the stop level
C4_PlannedFillUnderStop ==
  \E k \in 1..Len(trade_log) :
     LET t == trade_log[k] IN
     /\ t.exit_date = dt
     /\ t.reason # "STOP_LOSS"
     /\ LowToday(t) <= StopLevel(t.entry_price)

\* ---- C5
\* C5 as stated: a planned exit whose day had no bar for the symbol is filled
\* on the first later day that has one; once step 1 has run, no position with
\* a planned exit date in the past is open while its symbol has a bar.
C5_DeferredExitRetried ==
  pc # "planned_exits" =>
    \A i \in 1..Len(portfolio) :
       ~ (/\ portfolio[i].exit_planned_date # None
          /\ portfolio[i].exit_planned_date < dt
          /\ portfolio[i].symbol \in DOMAIN today_data)

\* ---- C6
\* C6 as stated: nothing done while processing day dt reads a row dated
\* after dt.
C6_NoLookahead == \A d \in reads : d <= dt

\* C6, amended: steps 1, 2, 3 and 5 read rows of dt only. Step 4 also reads
\* rows of the next trading day, and of that day only: the bar and the open
\* of candidates that are in today's top TOP_K by today's score and were not
\* held, which decide whether an entry is made, its share count and its cost.
C6_OnlyEntriesLookAhead ==
  /\ \A d \in reads : d = dt \/ (pc = "equity" /\ d = next_dt)
  /\ \A s \in DOMAIN next_day_data : InTopK(s) /\ ~HeldBefore(s)

\* step 4 created a position priced at the open it read from the next day
C6_EntryPricedOnNextOpen ==
  /\ AfterEntries
  /\ next_dt \in reads
  /\ \E i \in CreatedNow :
       /\ portfolio[i].symbol \in DOMAIN next_day_data
       /\ portfolio[i].entry_price =
            Scale(next_day_data[portfolio[i].symbol].open, PM + SLIPPAGE_BUY_PM)

\* ---- C7
Examined(s) == s \in DOMAIN next_day_data
FirstRanked(n) == {s \in DOMAIN today_data : ScoreRank(s) <= n}
\* the scenario: every slot free, more top candidates than slots, each with a
\* bar on the next day and priced, commission included, within a slot's share
\* of the cash
AllSlotsScenario ==
  /\ AfterEntries
  /\ CreatedNow = 1..Len(portfolio)
  /\ Cardinality(DOMAIN today_data) > MAX_POSITIONS
  /\ \A s \in FirstRanked(MAX_POSITIONS + 1) :
       /\ s \in feed.daily
       /\ Examined(s) =>
            TotalCost(1, EntryPrice(next_day_data[s].open))
              <= CashBefore(1) \div MAX_POSITIONS

\* C7 as stated: in that scenario exactly MAX_POSITIONS positions are created,
\* for the best-ranked candidates in rank order, and the next one is skipped.
C7_FirstTwoOfThree ==
  AllSlotsScenario =>
    /\ Len(portfolio) = MAX_POSITIONS
    /\ \A i \in 1..Len(portfolio) : ScoreRank(portfolio[i].symbol) = i

\* C7, amended: step 4 takes the top TOP_K in score-rank order and creates
\* positions in that order, at most one per free slot. A candidate is examined
\* iff a slot is free when its turn comes and it is not held; an examined
\* candidate gets a position iff it has a bar on the next day, its share count
\* floor((cash / free_slots) / fill) is positive and shares x fill x
\* (1 + COMMISSION) is within the cash left. So the first MAX_POSITIONS are
\* the ones created when each of their orders passes; an order dropped for its
\* cost leaves the slot to the next candidate.
C7_EntriesInRankOrder ==
  AfterEntries =>
    /\ \A i, j \in CreatedNow :
         i < j => ScoreRank(portfolio[i].symbol) < ScoreRank(portfolio[j].symbol)
    /\ \A i \in CreatedNow : InTopK(portfolio[i].symbol)
    /\ \A s \in DOMAIN today_data :
         LET k == ScoreRank(s) IN
         /\ Examined(s) <=> (InTopK(s) /\ SlotsBefore(k) > 0 /\ ~HeldBefore(s))
         /\ (\E i \in CreatedNow : portfolio[i].symbol = s) <=>
              /\ Examined(s)
              /\ next_day_data[s].bar
              /\ LET entry_price == EntryPrice(next_day_data[s].open)
                     shares == Shares(CashBefore(k), SlotsBefore(k), entry_price)
                 IN  shares > 0 /\ TotalCost(shares, entry_price) <= CashBefore(k)

\* the scenario with every order passing: the first MAX_POSITIONS candidates
\* hold the slots and the next one was not looked at
C7_SlotsToBestRanked ==
  /\ AllSlotsScenario
  /\ Len(portfolio) = MAX_POSITIONS
  /\ \A i \in 1..Len(portfolio) : ScoreRank(portfolio[i].symbol) = i
  /\ \E s \in DOMAIN today_data : ScoreRank(s) = MAX_POSITIONS + 1 /\ ~Examined(s)

\* ---- C8
SingleSymbol(k) ==
  feed.kind = "regime" /\ feed.daily = {"A"} /\ feed.regime["A"] = Steady(k)

\* C8 as stated: with a single symbol at a flat price and enough history, a
\* position is closed by TIME_EXIT once days_held has reached HORIZON, the day
\* after, and by no other reason before.
C8_FlatHeldToHorizon ==
  SingleSymbol(CalmBar) =>
    \A k \in 1..Len(trade_log) :
       /\ trade_log[k].reason = "TIME_EXIT"
       /\ trade_log[k].days_held = HORIZON

\* C8, amended: a symbol that repeats one flat bar (open = high = low = close)
\* is stagnant on every day with enough history, so rule 2 plans
\* STAGNATION_EXIT_RELAXED as soon as days_held exceeds 10 and the position is
\* closed at the next open, 11 trading days after its entry date. TIME_EXIT
\* closes, HORIZON trading days after the entry date, a position no earlier
\* rule matched: the single symbol with a flat close and a daily range of 2.5%
\* of it or more.
C8_FlatClosedByStagnation ==
  /\ SingleSymbol(CalmBar) =>
       \A k \in 1..Len(trade_log) :
          /\ trade_log[k].reason = "STAGNATION_EXIT_RELAXED"
          /\ trade_log[k].days_held = STAGNATION_MIN_HOLD_DAYS + 1
          /\ trade_log[k].exit_date =
               trade_log[k].entry_date + STAGNATION_MIN_HOLD_DAYS + 1
  /\ SingleSymbol(RangeBar) =>
       \A k \in 1..Len(trade_log) :
          /\ trade_log[k].reason = "TIME_EXIT"
          /\ trade_log[k].days_held = HORIZON
          /\ trade_log[k].exit_date = trade_log[k].entry_date + HORIZON
  /\ \A k \in 1..Len(trade_log) :
       trade_log[k].reason = "TIME_EXIT" => trade_log[k].days_held >= HORIZON

\* the flat single symbol has been sold
C8_FlatSold == SingleSymbol(CalmBar) /\ Len(trade_log) > 0

\* ---- C9
\* C9 as stated: no rule-based exit is planned for a position whose days_held
\* is under PATIENCE_DAYS, and no trade other than a STOP_LOSS closes one.
C9_PatienceGate ==
  /\ (pc = "entries" /\ next_dt # None) =>
       \A i \in 1..Len(portfolio) :
          portfolio[i].exit_planned_date = next_dt
            => portfolio[i].days_held >= PATIENCE_DAYS
  /\ \A k \in 1..Len(trade_log) :
       trade_log[k].days_held < PATIENCE_DAYS => trade_log[k].reason = "STOP_LOSS"

\* ---- C10
StopHitToday(pos) ==
  /\ pos.symbol \in DOMAIN today_data
  /\ today_data[pos.symbol].low <= Scale(pos.entry_price, PM + STOP_LOSS_PM)
StopProceeds == [i \in 1..Len(portfolio) |->
  LET pos == portfolio[i]
      fill == Min(today_data[pos.symbol].open,
                  Scale(pos.entry_price, PM + STOP_LOSS_PM))
  IN  pos.shares * fill - Scale(pos.shares * fill, COMMISSION_PM)]

\* C10: step 2 closes a position iff its symbol has a bar today with low <=
\* stop_level = entry_price x (1 + STOP_LOSS); the fill is min(open,
\* stop_level) with no slippage, the cash credited is shares x fill less the
\* commission on it, the trade's return is at most STOP_LOSS. Entry 100, low
\* 93: open 90 fills at 90, open 97 at 95.
C10_StopLossFill ==
  /\ StopFill(P(90), P(100)) = P(90) /\ StopFill(P(97), P(100)) = P(95)
  /\ StopHit(P(93), P(100))
  /\ [][pc = "stop_loss" =>
         /\ \A i \in 1..Len(portfolio) :
              LET pos == portfolio[i]
                  closed == \E k \in NewTrades : trade_log'[k].symbol = pos.symbol
              IN  /\ closed <=> StopHitToday(pos)
                  /\ closed <=> ~ \E j \in 1..Len(portfolio') :
                                      portfolio'[j].symbol = pos.symbol
         /\ \A k \in NewTrades :
              LET t == trade_log'[k] IN
              /\ t.reason = "STOP_LOSS"
              /\ t.exit_price = Min(today_data[t.symbol].open,
                                    Scale(t.entry_price, PM + STOP_LOSS_PM))
              /\ RetAtMost(t.return, STOP_LOSS_PM)
         /\ cash' = cash + SumOver({i \in 1..Len(portfolio) :
                                      StopHitToday(portfolio[i])}, StopProceeds)
     ]_vars

\* a stop-loss trade of today, filled at an open under the stop level
C10_GapFill ==
  \E k \in 1..Len(trade_log) :
     LET t == trade_log[k] IN
     /\ t.exit_date = dt
     /\ t.reason = "STOP_LOSS"
     /\ today_data[t.symbol].open < StopLevel(t.entry_price)
     /\ t.exit_price = today_data[t.symbol].open

\* ---- C11
OrderCost(shares, fill) == shares * fill + Scale(shares * fill, COMMISSION_PM)
NewPositions == {i \in 1..Len(portfolio') : i > Len(portfolio)}
NewCost == [i \in 1..Len(portfolio') |->
              OrderCost(portfolio'[i].shares, portfolio'[i].entry_price)]

\* C11: an entry is priced at the next day's open x (1 + SLIPPAGE_BUY); its
\* shares are floor((cash / free_slots) / fill) on the cash and free slots at
\* the candidate's turn; the debit is shares x fill x (1 + COMMISSION); the
\* position stores the fill, the next trading day, days_held 0 and no plan.
\* Open 100 fills at 101 and costs 101.202 a share.
C11_EntryFillAndDebit ==
  /\ Scale(P(100), PM + SLIPPAGE_BUY_PM) = P(101)
  /\ OrderCost(3, P(101)) = 3 * 101202 * PM
  /\ [](AfterEntries =>
         \A i \in CreatedNow :
            LET pos == portfolio[i]
                k == ScoreRank(pos.symbol)
                fill == Scale(next_day_data[pos.symbol].open, PM + SLIPPAGE_BUY_PM)
            IN  /\ pos.symbol \in DOMAIN next_day_data
                /\ next_day_data[pos.symbol].bar
                /\ pos.entry_price = fill
                /\ pos.shares = CashBefore(k) \div (SlotsBefore(k) * fill)
                /\ pos.shares > 0
                /\ pos.entry_date = next_dt
                /\ pos.days_held = 0
                /\ pos.exit_planned_date = None
                /\ pos.exit_reason_planned = NoReason)
  /\ [][pc = "entries" =>
          /\ cash - cash' = SumOver(NewPositions, NewCost)
          /\ \A i \in 1..Len(portfolio) : portfolio'[i] = portfolio[i]]_vars

\* step 4 made two entries, the second sized on what the first left
C11_TwoEntries ==
  /\ AfterEntries
  /\ \E i, j \in CreatedNow :
       /\ i < j
       /\ portfolio[j].shares * portfolio[j].entry_price
            > CashBefore(1) \div MAX_POSITIONS

\* ---- C12
ExitReasons ==
  {"STOP_LOSS", "PERF_FAIL_RELAXED", "STAGNATION_EXIT_RELAXED", "WEAK_RS_EXIT",
   "TIME_EXIT", "MODEL_TP", "PLANNED_EXIT"}

\* C12: every trade record has one reason, one of STOP_LOSS, PERF_FAIL,
\* STAGNATION_EXIT, WEAK_RS_EXIT, TIME_EXIT, MODEL_TP, PLANNED (with the
\* labels of the source); a trade of step 2 has STOP_LOSS, a trade of step 1
\* the reason stored on the position whose planned exit was due.
C12_ExitReasonExclusive ==
  /\ [](\A k \in 1..Len(trade_log) : trade_log[k].reason \in ExitReasons)
  /\ [][ /\ pc = "planned_exits" =>
             \A k \in NewTrades :
                \E i \in 1..Len(portfolio) :
                   /\ portfolio[i].symbol = trade_log'[k].symbol
                   /\ portfolio[i].exit_planned_date = dt
                   /\ trade_log'[k].reason = portfolio[i].exit_reason_planned
                   /\ trade_log'[k].reason # "STOP_LOSS"
         /\ pc = "stop_loss" =>
             \A k \in NewTrades : trade_log'[k].reason = "STOP_LOSS"
         /\ pc \notin {"planned_exits", "stop_loss"} => trade_log' = trade_log
       ]_vars

\* the log holds a stop-loss trade and a trade of a planned exit
C12_BothKindsLogged ==
  \E k, m \in 1..Len(trade_log) :
     /\ trade_log[k].reason = "STOP_LOSS"
     /\ trade_log[m].reason \in ExitReasons \ {"STOP_LOSS"}

\* ---- C13
Ledger == [cash |-> cash, portfolio |-> portfolio, trade_log |-> trade_log]
\* the next day's rows as far as step 4 looked at them
NextRowsRead ==
  [s \in SeqSet(Candidates) |->
     IF s \in DOMAIN next_day_data' THEN next_day_data'[s]
     ELSE [bar |-> FALSE, open |-> 0]]

SamePosition(a, b) == a.symbol = b.symbol /\ a.entry_date = b.entry_date

\* C14: a position leaves the open set exactly when one trade record for it
\* is appended, so positions created = open positions + trade records (both
\* start empty; the sum grows only by the positions step 4 appends); the log
\* is append-only; a closed position is never open again.
C14_OneTradePerClose ==
  /\ Len(portfolio) = 0 /\ Len(trade_log) = 0
  /\ [](\A k \in 1..Len(trade_log) : \A i \in 1..Len(portfolio) :
          ~SamePosition(trade_log[k], portfolio[i]))
  /\ [][ /\ Len(trade_log') >= Len(trade_log)
         /\ SubSeq(trade_log', 1, Len(trade_log)) = trade_log
         /\ pc # "entries" =>
              Len(portfolio') + Len(trade_log') = Len(portfolio) + Len(trade_log)
         /\ pc = "entries" =>
              trade_log' = trade_log /\ Len(portfolio') >= Len(portfolio)
         /\ \A i \in 1..Len(portfolio) :
              LET closed == \A j \in 1..Len(portfolio') :
                               ~SamePosition(portfolio'[j], portfolio[i])
                  records == {k \in NewTrades :
                                SamePosition(trade_log'[k], portfolio[i])}
              IN  Cardinality(records) = IF closed THEN 1 ELSE 0
         /\ \A k \in NewTrades :
              \E i \in 1..Len(portfolio) : SamePosition(trade_log'[k], portfolio[i])
       ]_vars

\* two positions have been closed and another is open
C14_TwoClosedOneOpen == Len(trade_log) >= 2 /\ Len(portfolio) >= 1

\* ---- C15
InsideDay == pc \in {"planned_exits", "stop_loss", "exit_rules", "entries", "equity"}

\* C15: the dates are taken one by one in increasing order (dt only ever
\* moves to dt + 1, between days); the equity curve changes only in the last
\* step of a day, by one appended point dated that day, so point i is dated
\* i and the curve holds one point per day already completed; a run over at
\* least one date reaches the end of the loop after the last date, with as
\* many points as there are trading days. Every date of the loop has rows
\* (get_group never raises), so no date is skipped.
C15_EquityCurve ==
  /\ [](\A i \in 1..Len(equity_curve) : equity_curve[i].date = i)
  /\ [](Len(equity_curve) = IF InsideDay THEN dt - 1 ELSE dt)
  /\ [](pc = "done" => dt = dates /\ Len(equity_curve) = dates)
  /\ []((pc = "next" /\ dt < dates) =>
          DayData(feed, dt + 1, HeldSymbols(portfolio), next_day_data) # {})
  /\ [][ /\ dt' = dt \/ (dt' = dt + 1 /\ pc = "next" /\ pc' = "planned_exits")
         /\ pc = "equity" =>
              /\ pc' = "next"
              /\ Len(equity_curve') = Len(equity_curve) + 1
              /\ SubSeq(equity_curve', 1, Len(equity_curve)) = equity_curve
              /\ equity_curve'[Len(equity_curve')].date = dt
         /\ pc # "equity" => equity_curve' = equity_curve
       ]_vars
  /\ (dates > 0) ~> (pc = "done")

\* a run over several days is complete
C15_RunComplete == pc = "done" /\ dates > 1 /\ Len(equity_curve) = dates

\* ---- C16
MissingBar(pos) == pos.symbol \notin DOMAIN today_data
MarkedValue == [i \in 1..Len(portfolio) |->
                  portfolio[i].shares *
                    (IF MissingBar(portfolio[i]) THEN portfolio[i].entry_price
                     ELSE today_data[portfolio[i].symbol].close)]

\* C16: on a day when a held symbol has no bar every step of the day still
\* completes; no step closes the position (no planned exit, no stop-loss) and
\* step 3 gives it no plan; step 2 adds exactly one to its days_held and no
\* other step changes it; step 5 values it at its entry price.
C16_MissingBarSkipped ==
  [][ /\ \A i \in 1..Len(portfolio) :
           (MissingBar(portfolio[i]) /\ InsideDay) =>
              /\ pc' # pc
              /\ \A k \in NewTrades : trade_log'[k].symbol # portfolio[i].symbol
              /\ \E j \in 1..Len(portfolio') :
                    portfolio'[j] = [portfolio[i] EXCEPT !.days_held =
                                       @ + (IF pc = "stop_loss" THEN 1 ELSE 0)]
      /\ pc = "equity" =>
           equity_curve'[Len(equity_curve')].equity =
             cash + SumOver(1..Len(portfolio), MarkedValue)
    ]_vars

\* a day has ended on which a position bought on an earlier day had no bar
C16_HeldWithoutBar ==
  /\ pc = "next"
  /\ \E i \in 1..Len(portfolio) :
       /\ MissingBar(portfolio[i])
       /\ portfolio[i].entry_date < dt
       /\ portfolio[i].days_held = dt - portfolio[i].entry_date + 1

\* ---- C17
FillOf(s) == Scale(next_day_data[s].open, PM + SLIPPAGE_BUY_PM)
FullShares(s) ==
  CashBefore(ScoreRank(s)) \div (SlotsBefore(ScoreRank(s)) * FillOf(s))
Unfillable(s) ==
  \/ ~next_day_data[s].bar
  \/ FullShares(s) = 0
  \/ OrderCost(FullShares(s), FillOf(s)) > CashBefore(ScoreRank(s))
CreatedSymbols == {portfolio[i].symbol : i \in CreatedNow}

\* C17: a candidate that step 4 examined and that has no next-day bar, or
\* whose full share count floor((cash / free_slots) / fill) is 0, or whose
\* full order with commission costs more than the cash at its turn, gets no
\* position, not even a smaller one at that turn or later in the day; the
\* loop goes on to the next-ranked unheld candidate while a slot is free;
\* step 4 leaves the positions it found as they were, logs no trade and
\* takes from the cash only the cost of the positions it created.
C17_UnfillableSkipped ==
  /\ [](AfterEntries =>
         \A s \in DOMAIN next_day_data :
            /\ SlotsBefore(ScoreRank(s)) > 0
            /\ (Unfillable(s) <=> s \notin CreatedSymbols)
            /\ Unfillable(s) =>
                 \A t \in DOMAIN today_data :
                    (/\ InTopK(t)
                     /\ ScoreRank(t) > ScoreRank(s)
                     /\ ~HeldBefore(t)
                     /\ SlotsBefore(ScoreRank(t)) > 0) => Examined(t))
  /\ [][pc = "entries" =>
          /\ SubSeq(portfolio', 1, Len(portfolio)) = portfolio
          /\ trade_log' = trade_log
          /\ cash - cash' = SumOver(NewPositions, NewCost)]_vars

\* an order of two or more shares was refused for its commission, though one
\* share less was within the cash, and a lower-ranked candidate was bought
C17_RefusedNotCutDown ==
  /\ AfterEntries
  /\ \E s \in DOMAIN next_day_data :
       /\ next_day_data[s].bar
       /\ FullShares(s) >= 2
       /\ OrderCost(FullShares(s), FillOf(s)) > CashBefore(ScoreRank(s))
       /\ OrderCost(FullShares(s) - 1, FillOf(s)) <= CashBefore(ScoreRank(s))
       /\ s \notin CreatedSymbols
       /\ \E t \in CreatedSymbols : ScoreRank(t) > ScoreRank(s)

\* ---- C18
Outranking(s) == {t \in DOMAIN today_data : today_data[t].score > today_data[s].score}

\* C18: the symbols step 4 enters, and the ones it looks up for the next
\* day, are among the TOP_K best-scored symbols of the day, and the entries
\* are appended best score first; a symbol with TOP_K or more symbols scored
\* above it is neither looked up nor entered, free slots or not; steps 3 and
\* 4 complete on a day of any number of symbols, and step 4 enters no more
\* symbols than the day has.
C18_CandidatePool ==
  /\ [](AfterEntries =>
         /\ \A s \in CreatedSymbols \cup DOMAIN next_day_data :
              s \in DOMAIN today_data /\ Cardinality(Outranking(s)) < TOP_K
         /\ \A i, j \in CreatedNow :
              i < j => today_data[portfolio[i].symbol].score
                         > today_data[portfolio[j].symbol].score)
  /\ [][ /\ pc = "exit_rules" => pc' = "entries"
         /\ pc = "entries" =>
              /\ pc' = "equity"
              /\ Len(portfolio') - Len(portfolio) <= TOP_K
              /\ Len(portfolio') - Len(portfolio) <= Cardinality(DOMAIN today_data)
       ]_vars

\* step 4 has run with a slot left free and an unheld symbol ranked below
\* TOP_K that it did not look up
C18_BelowPoolLeftOut ==
  /\ AfterEntries
  /\ Len(portfolio) < MAX_POSITIONS
  /\ \E s \in DOMAIN today_data :
       /\ Cardinality(Outranking(s)) >= TOP_K
       /\ ~Held(portfolio, s)
       /\ s \notin DOMAIN next_day_data
       /\ s \in feed.daily

\* step 4 has entered a symbol on a day of fewer than TOP_K symbols
C18_ShortDay ==
  /\ AfterEntries
  /\ Cardinality(DOMAIN today_data) < TOP_K
  /\ CreatedNow # {}

\* ---- C19
NoFeed == feed.kind \in {"absent", "empty"}

\* C19 as stated: when the feed is absent or has no trading day the run
\* stops in the error raised while loading, before the loop; it produces no
\* trade and no equity point, and no error is raised after the loop.
C19_FailFast ==
  /\ pc # "KeyError"
  /\ NoFeed =>
       /\ pc \in {"FileNotFoundError", "next"}
       /\ pc = "next" => feed.kind = "empty"
       /\ trade_log = <<>> /\ equity_curve = <<>>

\* ---- C20
Planned(pos) == pos.exit_planned_date # None
PlanReasons == ExitReasons \ {"STOP_LOSS", "PLANNED_EXIT"}

\* C20: an open position has a planned date exactly when it has a planned
\* reason, and the reason is one of the five rules; a position is created
\* without a plan; only step 3 gives a plan, dated the next trading day, to a
\* position that has none; a plan, once set, stays as it is while the
\* position is open; a position is closed either by STOP_LOSS or, in step 1,
\* with the reason of its plan.
C20_Lifecycle ==
  /\ [](\A i \in 1..Len(portfolio) :
          /\ Planned(portfolio[i]) <=> portfolio[i].exit_reason_planned # NoReason
          /\ Planned(portfolio[i]) => portfolio[i].exit_reason_planned \in PlanReasons)
  /\ [][ /\ \A i \in 1..Len(portfolio) :
              LET pos == portfolio[i] IN
              /\ \A j \in 1..Len(portfolio') :
                    SamePosition(portfolio'[j], pos) =>
                      IF Planned(pos)
                        THEN /\ portfolio'[j].exit_planned_date = pos.exit_planned_date
                             /\ portfolio'[j].exit_reason_planned = pos.exit_reason_planned
                        ELSE Planned(portfolio'[j]) =>
                               /\ pc = "exit_rules"
                               /\ portfolio'[j].exit_planned_date = next_dt
                               /\ next_dt # None
              /\ \A k \in NewTrades :
                    SamePosition(trade_log'[k], pos) =>
                      \/ trade_log'[k].reason = "STOP_LOSS" /\ pc = "stop_loss"
                      \/ /\ pc = "planned_exits"
                         /\ Planned(pos)
                         /\ trade_log'[k].reason = pos.exit_reason_planned
         /\ \A j \in NewPositions : ~Planned(portfolio'[j])
       ]_vars

\* one position has been closed with the reason of its plan and another is
\* open with a plan made on an earlier day
C20_PlanKeptAndClosed ==
  /\ \E k \in 1..Len(trade_log) : trade_log[k].reason \in PlanReasons
  /\ \E i \in 1..Len(portfolio) :
       /\ Planned(portfolio[i])
       /\ portfolio[i].exit_planned_date <= dt

\* ---- C21
\* C21: step 3 of day dt dates a new plan dt + 1, the next trading day, and
\* no other step dates a plan; so an open plan is dated at most the day after
\* today, and a plan older than today was missed, not re-dated. A trade
\* closed by step 1 (the only trades with a reason other than STOP_LOSS) is
\* dated today, which is the date of its plan, and is priced on today's open
\* less the sell slippage.
C21_NextDayPlan ==
  /\ [](\A i \in 1..Len(portfolio) :
          Planned(portfolio[i]) =>
            /\ portfolio[i].exit_planned_date > portfolio[i].entry_date
            /\ portfolio[i].exit_planned_date <= dates
            /\ portfolio[i].exit_planned_date <=
                 IF pc \in {"entries", "equity", "next"} THEN dt + 1 ELSE dt)
  /\ [](\A k \in 1..Len(trade_log) :
          trade_log[k].reason # "STOP_LOSS" =>
            /\ trade_log[k].exit_date > trade_log[k].entry_date
            /\ trade_log[k].exit_date <= dt)
  /\ [][ /\ \A i \in 1..Len(portfolio) : \A j \in 1..Len(portfolio') :
              (/\ SamePosition(portfolio'[j], portfolio[i])
               /\ ~Planned(portfolio[i])
               /\ Planned(portfolio'[j])) =>
                 /\ pc = "exit_rules"
                 /\ dt + 1 <= dates
                 /\ portfolio'[j].exit_planned_date = dt + 1
         /\ \A k \in NewTrades :
              trade_log'[k].reason # "STOP_LOSS" =>
                /\ pc = "planned_exits"
                /\ trade_log'[k].exit_date = dt
                /\ \E i \in 1..Len(portfolio) :
                     /\ SamePosition(trade_log'[k], portfolio[i])
                     /\ portfolio[i].exit_planned_date = dt
                     /\ trade_log'[k].symbol \in DOMAIN today_data
                     /\ trade_log'[k].exit_price =
                          Scale(today_data[trade_log'[k].symbol].open,
                                PM - SLIPPAGE_SELL_PM)
       ]_vars

\* a plan made yesterday has just been filled on today's open
C21_FilledNextDay ==
  /\ pc = "stop_loss"
  /\ \E k \in 1..Len(trade_log) :
       /\ trade_log[k].reason \in PlanReasons
       /\ trade_log[k].exit_date = dt
       /\ trade_log[k].exit_price =
            Scale(today_data[trade_log[k].symbol].open, PM - SLIPPAGE_SELL_PM)

\* ---- C22
BeforeStopLoss == pc \in {"planned_exits", "stop_loss"}
PlannedToday(pos) == pc \in {"entries", "equity", "next"} /\ pos.exit_planned_date = dt + 1

\* C22 as stated: a position that stays open has its days_held raised by one
\* only during exit-rule evaluation and only when it gets no plan there, so a
\* position planned today still has the days_held of the day before.
C22_OneMutationPerDay ==
  /\ [](\A i \in 1..Len(portfolio) :
          PlannedToday(portfolio[i]) =>
            portfolio[i].days_held = dt - portfolio[i].entry_date)
  /\ [][\A i \in 1..Len(portfolio) : \A j \in 1..Len(portfolio') :
          SamePosition(portfolio'[j], portfolio[i]) =>
            LET inc == portfolio'[j].days_held - portfolio[i].days_held
                planned_now == ~Planned(portfolio[i]) /\ Planned(portfolio'[j])
            IN  /\ inc \in {0, 1}
                /\ inc = 1 => pc = "exit_rules" /\ ~planned_now
                /\ (pc = "exit_rules" /\ ~Planned(portfolio'[j])) => inc = 1
        ]_vars

\* C22 amended: step 2 raises days_held by one for every position it leaves
\* open, planned or not, bar or no bar, and changes nothing else of it; step
\* 3 changes only the plan, of positions that have none, and evaluates its
\* rules on the days_held step 2 has just raised; no other step changes an
\* open position. So days_held is the number of days from the entry date to
\* today, today included once step 2 has run, each of the two fields changes
\* at most once a day, and a position planned today was changed twice today.
C22_CountedThenPlanned ==
  /\ [](\A i \in 1..Len(portfolio) :
          portfolio[i].days_held =
            dt - portfolio[i].entry_date + IF BeforeStopLoss THEN 0 ELSE 1)
  /\ [][\A i \in 1..Len(portfolio) : \A j \in 1..Len(portfolio') :
          SamePosition(portfolio'[j], portfolio[i]) =>
            CASE pc = "stop_loss" ->
                   portfolio'[j] = [portfolio[i] EXCEPT !.days_held = @ + 1]
              [] pc = "exit_rules" ->
                   /\ [portfolio'[j] EXCEPT !.exit_planned_date = None,
                                            !.exit_reason_planned = NoReason]
                        = [portfolio[i] EXCEPT !.exit_planned_date = None,
                                               !.exit_reason_planned = NoReason]
                   /\ (~Planned(portfolio[i]) /\ Planned(portfolio'[j])) =>
                        /\ portfolio[i].days_held = dt - portfolio[i].entry_date + 1
                        /\ portfolio'[j].exit_reason_planned =
                             ExitRule(portfolio[i], today_data[portfolio[i].symbol],
                                      top_symbols)
              [] OTHER -> portfolio'[j] = portfolio[i]
        ]_vars

\* step 3 has planned the exit of a position whose days_held step 2 raised
\* on the same day
C22_CountedAndPlannedToday ==
  /\ pc = "entries"
  /\ \E i \in 1..Len(portfolio) :
       /\ PlannedToday(portfolio[i])
       /\ portfolio[i].days_held = dt - portfolio[i].entry_date + 1
       /\ portfolio[i].days_held >= 1

\* ---- C23
\* the condition of each rule, for position pos on its row of today
PerfFailHolds(pos, row) ==
  /\ pos.days_held >= 8
  /\ RetLess(Ret(row.close, pos.entry_price), -20)
  /\ pos.symbol \notin top_symbols
StagnationHolds(pos, row) ==
  /\ pos.days_held > 10
  /\ row.stagnant_3d_count >= 3
  /\ RetLess(Ret(row.close, pos.entry_price), 30)
WeakRsHolds(pos, row) ==
  pos.days_held > 5 /\ row.is_rs_weak /\ pos.symbol \notin top_symbols
TimeExitHolds(pos, row) == pos.days_held >= HORIZON
ModelTpHolds(pos, row) ==
  /\ RetAtLeast(Ret(row.close, pos.entry_price), TAKE_PROFIT_PM)
  /\ pos.symbol \notin top_symbols
RuleOrder ==
  <<"PERF_FAIL_RELAXED", "STAGNATION_EXIT_RELAXED", "WEAK_RS_EXIT", "TIME_EXIT",
    "MODEL_TP">>
RuleHolds(pos, row) ==
  <<PerfFailHolds(pos, row), StagnationHolds(pos, row), WeakRsHolds(pos, row),
    TimeExitHolds(pos, row), ModelTpHolds(pos, row)>>
Evaluated(pos) ==
  ~Planned(pos) /\ pos.symbol \in DOMAIN today_data /\ next_dt # None

\* C23: step 3 plans, for a position it evaluates, the reason of the first
\* rule whose condition holds in the order PERF_FAIL, STAGNATION_EXIT,
\* WEAK_RS_EXIT, TIME_EXIT, MODEL_TP, and no plan when none holds; so
\* PERF_FAIL wins over TIME_EXIT when both hold. The conditions of
\* STAGNATION_EXIT (return under 3%) and MODEL_TP (return of 10% or more)
\* never hold together.
C23_FirstMatchWins ==
  /\ [](\A i \in 1..Len(portfolio) : \A s \in DOMAIN today_data :
          ~(StagnationHolds(portfolio[i], today_data[s])
              /\ ModelTpHolds(portfolio[i], today_data[s])))
  /\ [][pc = "exit_rules" =>
          /\ Len(portfolio') = Len(portfolio)
          /\ \A i \in 1..Len(portfolio) :
               Evaluated(portfolio[i]) =>
                 LET pos == portfolio[i]
                     holds == RuleHolds(pos, today_data[pos.symbol])
                     got == portfolio'[i].exit_reason_planned
                 IN  /\ \A n \in 1..5 :
                          got = RuleOrder[n] <=>
                            (holds[n] /\ \A m \in 1..(n - 1) : ~holds[m])
                     /\ got = NoReason <=> \A n \in 1..5 : ~holds[n]
                     /\ (holds[1] /\ holds[4]) => got = "PERF_FAIL_RELAXED"
        ]_vars

\* step 3 has planned PERF_FAIL for a position that the time stop also
\* claimed
C23_PerfFailOverTime ==
  /\ pc = "entries"
  /\ \E i \in 1..Len(portfolio) :
       /\ portfolio[i].exit_reason_planned = "PERF_FAIL_RELAXED"
       /\ portfolio[i].exit_planned_date = dt + 1
       /\ portfolio[i].days_held >= HORIZON

\* ---- C24
DueToday(pos) == pos.exit_planned_date = dt /\ pos.symbol \in DOMAIN today_data
PlannedFill(pos) == Scale(today_data[pos.symbol].open, PM - SLIPPAGE_SELL_PM)
PlannedProceeds == [i \in 1..Len(portfolio) |->
  Scale(portfolio[i].shares * PlannedFill(portfolio[i]), PM - COMMISSION_PM)]
StillOpen == {i \in 1..Len(portfolio) : ~DueToday(portfolio[i])}

\* C24: step 1 closes exactly the positions whose planned date is today and
\* whose symbol has a bar today; each is filled at open x (1 - SLIPPAGE_SELL),
\* credits shares x fill x (1 - COMMISSION) to the cash and is logged once,
\* dated today, with return fill / entry - 1, the reason of its plan and its
\* days_held as it stood (the count of the day before); every other position
\* stays as it was, in the same order. Open 100 fills at 99.5; ten shares
\* bring 993.01.
C24_PlannedExitFill ==
  /\ Scale(P(100), PM - SLIPPAGE_SELL_PM) = 99500 * PM
  /\ Scale(10 * 99500 * PM, PM - COMMISSION_PM) = 993010 * PM
  /\ [][pc = "planned_exits" =>
          /\ \A i \in 1..Len(portfolio) :
               LET pos == portfolio[i]
                   logged == {k \in NewTrades : trade_log'[k].symbol = pos.symbol}
               IN  IF DueToday(pos)
                     THEN /\ \A j \in 1..Len(portfolio') :
                                portfolio'[j].symbol # pos.symbol
                          /\ Cardinality(logged) = 1
                          /\ \A k \in logged :
                               trade_log'[k] =
                                 [exit_date |-> dt, symbol |-> pos.symbol,
                                  entry_date |-> pos.entry_date,
                                  entry_price |-> pos.entry_price,
                                  exit_price |-> PlannedFill(pos),
                                  return |-> [num |-> PlannedFill(pos) - pos.entry_price,
                                              den |-> pos.entry_price],
                                  reason |-> pos.exit_reason_planned,
                                  days_held |-> pos.days_held]
                     ELSE logged = {}
          /\ Len(portfolio') = Cardinality(StillOpen)
          /\ \A i \in StillOpen :
               portfolio'[Cardinality({m \in StillOpen : m <= i})] = portfolio[i]
          /\ Len(trade_log') - Len(trade_log) = Len(portfolio) - Len(portfolio')
          /\ cash' = cash + SumOver((1..Len(portfolio)) \ StillOpen, PlannedProceeds)
       ]_vars

\* step 1 has just filled a planned exit and left another position untouched
C24_OneFilledOneKept ==
  /\ pc = "stop_loss"
  /\ Len(portfolio) >= 1
  /\ \E k \in 1..Len(trade_log) :
       /\ trade_log[k].exit_date = dt
       /\ trade_log[k].reason \in PlanReasons
       /\ trade_log[k].days_held = dt - trade_log[k].entry_date
       /\ trade_log[k].exit_price < today_data[trade_log[k].symbol].open

\* ---- C25
DayClosed == pc = "next" /\ dt >= 1
QuietDay ==
  /\ DayClosed /\ dt >= 2
  /\ portfolio # <<>>
  /\ \A i \in 1..Len(portfolio) :
       MissingBar(portfolio[i]) /\ portfolio[i].entry_date <= dt
  /\ \A k \in 1..Len(trade_log) : trade_log[k].exit_date # dt

\* C25 as stated: a position without a bar today is valued at its last known
\* close. So on a day when no held symbol has a bar and nothing is sold or
\* bought, every position keeps yesterday's value and the cash is the same:
\* the equity point equals yesterday's.
C25_MarkedAtLastClose ==
  QuietDay => equity_curve[dt].equity = equity_curve[dt - 1].equity

\* C25 amended: the equity point of day D is the cash at the end of day D
\* plus, over all open positions, shares x today's close when the symbol has
\* a bar today and shares x entry_price when it has none (a last known close
\* is not used); the positions created today for next-day entry are counted,
\* at today's close, which they always have; with no open position the
\* equity is the cash.
C25_MarkToMarket ==
  DayClosed =>
    /\ equity_curve[dt].date = dt
    /\ equity_curve[dt].equity = cash + SumOver(1..Len(portfolio), MarkedValue)
    /\ portfolio = <<>> => equity_curve[dt].equity = cash
    /\ \A i \in 1..Len(portfolio) :
         portfolio[i].entry_date = dt + 1 => ~MissingBar(portfolio[i])

\* a day has closed on which the only position had no bar: it is valued at
\* its entry price, and the equity differs from yesterday's, when it was
\* valued at a close
C25_ValuedAtEntryPrice ==
  /\ QuietDay
  /\ Len(portfolio) = 1
  /\ equity_curve[dt].equity = cash + portfolio[1].shares * portfolio[1].entry_price
  /\ equity_curve[dt].equity # equity_curve[dt - 1].equity


\* ---- C26
StepAfter ==
  [planned_exits |-> "stop_loss", stop_loss |-> "exit_rules",
   exit_rules |-> "entries", entries |-> "equity", equity |-> "next"]
ClosedToday == {k \in 1..Len(trade_log) : trade_log[k].exit_date = dt}
OpenAtDayStart == Len(portfolio) - Cardinality(CreatedNow) + Cardinality(ClosedToday)

\* C26: within a day the steps run in the order planned exits, stop-loss,
\* exit rules, entries, mark-to-market, and trades are logged only by the
\* first two; step 4 counts its free slots on the portfolio as steps 1 and 2
\* left it, so whenever fewer than MAX_POSITIONS positions are open at its
\* start, the slots freed today included, the best-ranked unheld candidate
\* among the top TOP_K is looked up; a position with a plan, made today or
\* earlier, is still in the portfolio during step 4: it is left as it was,
\* it counts against MAX_POSITIONS and no position is created for its symbol.
C26_StepOrder ==
  /\ [][ /\ InsideDay => pc' = StepAfter[pc]
         /\ pc \in {"exit_rules", "entries", "equity"} => trade_log' = trade_log
         /\ pc = "entries" =>
              /\ Len(portfolio') <= MAX_POSITIONS
              /\ \A i \in 1..Len(portfolio) :
                   Planned(portfolio[i]) =>
                     /\ portfolio'[i] = portfolio[i]
                     /\ \A j \in NewPositions :
                          portfolio'[j].symbol # portfolio[i].symbol
       ]_vars
  /\ [](AfterEntries =>
         \A s \in DOMAIN today_data :
            (/\ InTopK(s)
             /\ ~HeldBefore(s)
             /\ Len(portfolio) - Cardinality(CreatedNow) < MAX_POSITIONS
             /\ \A t \in DOMAIN today_data :
                  (InTopK(t) /\ ~HeldBefore(t)) => ScoreRank(s) <= ScoreRank(t))
              => Examined(s))

\* the portfolio was full this morning, a position was closed today, and
\* step 4 has filled the freed slot the same day, next to a position whose
\* exit was planned today
C26_FreedSlotRefilled ==
  /\ AfterEntries
  /\ OpenAtDayStart = MAX_POSITIONS
  /\ ClosedToday # {}
  /\ CreatedNow # {}
  /\ \E i \in 1..Len(portfolio) : PlannedToday(portfolio[i])

\* ---- C27
TopKReasons == {"PERF_FAIL_RELAXED", "WEAK_RS_EXIT", "MODEL_TP"}

\* C27: a position whose symbol is among today's TOP_K best-scored symbols
\* gets no plan with reason PERF_FAIL, WEAK_RS_EXIT or MODEL_TP today; step 3
\* plans STAGNATION_EXIT for it when that rule's condition holds, else
\* TIME_EXIT when days_held has reached HORIZON, else nothing, whatever its
\* return and its weakness flag.
C27_TopKProtected ==
  /\ [](\A i \in 1..Len(portfolio) :
          (PlannedToday(portfolio[i]) /\ InTopK(portfolio[i].symbol)) =>
             portfolio[i].exit_reason_planned \notin TopKReasons)
  /\ [][pc = "exit_rules" =>
          \A i \in 1..Len(portfolio) :
             (Evaluated(portfolio[i]) /\ InTopK(portfolio[i].symbol)) =>
                LET pos == portfolio[i]
                    row == today_data[pos.symbol]
                IN  portfolio'[i].exit_reason_planned =
                      IF pos.days_held > 10 /\ row.stagnant_3d_count >= 3
                           /\ RetLess(Ret(row.close, pos.entry_price), 30)
                        THEN "STAGNATION_EXIT_RELAXED"
                      ELSE IF pos.days_held >= HORIZON THEN "TIME_EXIT"
                      ELSE NoReason
        ]_vars

\* step 3 has left without a plan a top-K position that is 5% under its
\* entry after eight days or more and flagged weak
C27_LoserKept ==
  /\ pc = "entries"
  /\ \E i \in 1..Len(portfolio) :
       LET pos == portfolio[i] IN
       /\ InTopK(pos.symbol)
       /\ ~Planned(pos)
       /\ pos.days_held >= PERF_FAIL_MIN_DAYS
       /\ today_data[pos.symbol].is_rs_weak
       /\ RetLess(Ret(today_data[pos.symbol].close, pos.entry_price), PERF_FAIL_RET_PM)

\* ---------------------------------------------------------------------- C28

LastDay == dates >= 1 /\ dt = dates
LoggedFor(pos) == {k \in 1..Len(trade_log) : SamePosition(trade_log[k], pos)}

\* C28: on the final date, where no next trading day exists, step 3 plans
\* no exit and step 4 creates no entry and reads no next-day row; planned
\* exits and stop-losses run as on any day and are the only steps that log
\* a trade, step 5 appends the equity point of the date, and when the run
\* ends no open position has a trade record or a plan dated after the
\* final date.
C28_LastDay ==
  /\ [](LastDay => next_dt = None)
  /\ [](LastDay /\ pc \in {"next", "done"} =>
          \A i \in 1..Len(portfolio) :
            /\ LoggedFor(portfolio[i]) = {}
            /\ portfolio[i].entry_date <= dates
            /\ Planned(portfolio[i]) => portfolio[i].exit_planned_date <= dates)
  /\ [][LastDay =>
          /\ pc = "planned_exits" =>
                /\ pc' = "stop_loss"
                /\ Len(portfolio') = Cardinality(StillOpen)
                /\ Len(trade_log') = Len(trade_log) + Len(portfolio) - Len(portfolio')
          /\ pc = "stop_loss" =>
                /\ pc' = "exit_rules"
                /\ Len(trade_log') = Len(trade_log) + Len(portfolio) - Len(portfolio')
                /\ \A k \in Len(trade_log) + 1..Len(trade_log') :
                      trade_log'[k].reason = "STOP_LOSS"
          /\ pc = "exit_rules" =>
                pc' = "entries" /\ UNCHANGED <<portfolio, cash, trade_log>>
          /\ pc = "entries" =>
                /\ pc' = "equity"
                /\ UNCHANGED <<portfolio, cash, trade_log, next_day_data>>
                /\ reads' = {dt}
          /\ pc = "equity" =>
                /\ pc' = "next"
                /\ UNCHANGED <<portfolio, cash, trade_log>>
                /\ equity_curve' = Append(equity_curve,
                      [date |-> dt,
                       equity |-> cash + PortfolioValue(portfolio, Len(portfolio))])
          /\ pc = "next" =>
                /\ pc' = "done"
                /\ UNCHANGED <<dt, portfolio, cash, trade_log, equity_curve>>]_vars

\* the run has ended with a free slot, cash in hand and an open, unplanned
\* position whose row of the final date satisfies an exit rule
C28_RuleHeldOnLastDay ==
  /\ pc = "done"
  /\ FreeSlots(portfolio) > 0
  /\ cash > 0
  /\ \E i \in 1..Len(portfolio) :
       LET pos == portfolio[i] IN
       /\ ~Planned(pos)
       /\ pos.symbol \in DOMAIN today_data
       /\ ExitRule(pos, today_data[pos.symbol], top_symbols) # NoReason

\* ---------------------------------------------------------------------- C29

Hist == feed.regime["A"]
RowNo == dt
TodayRow == today_data["A"]
Computed == pc \in {"exit_rules", "entries"}
\* the rows of the three-row window that ends at the current row
LastThree == {n \in 1..RowNo : n > RowNo - STAGNANT_WINDOW}
PlannedReason == portfolio[1].exit_reason_planned

\* C29: a row of a symbol with fewer than 14 rows or fewer than 20 rows has
\* is_stagnant false, a row with fewer than 3 rows, or with such a row among
\* its last three, has a stagnant_3d_count that fails >= 3, and a row with
\* fewer than 5 rows before it has is_rs_weak false; step 3 plans no
\* STAGNATION_EXIT from the former and no WEAK_RS_EXIT from the latter.
C29_UndefinedGivesNoSignal ==
  /\ [](Computed =>
          /\ (RowNo < ATR_WINDOW \/ RowNo < SMA_WINDOW) => ~TodayRow.is_stagnant
          /\ (RowNo < STAGNANT_WINDOW \/ \E n \in LastThree : n < SMA_WINDOW) =>
                ~(TodayRow.stagnant_3d_count >= STAGNATION_COUNT)
          /\ RowNo <= RS_WINDOW => ~TodayRow.is_rs_weak)
  /\ [][pc = "exit_rules" =>
          /\ (RowNo < STAGNANT_WINDOW \/ \E n \in LastThree : n < SMA_WINDOW) =>
                portfolio'[1].exit_reason_planned # "STAGNATION_EXIT_RELAXED"
          /\ RowNo <= RS_WINDOW =>
                portfolio'[1].exit_reason_planned # "WEAK_RS_EXIT"]_vars

\* step 3 has left alone a position held long enough for the weakness rule,
\* outside the top K, whose close is more than 2% below the symbol's first
\* close, on a row with fewer than five rows before it
C29_DropWithoutHistory ==
  /\ pc = "entries"
  /\ RowNo \in 2..RS_WINDOW
  /\ 1000 * Hist[RowNo].close < 980 * Hist[1].close
  /\ portfolio[1].days_held > WEAKNESS_MIN_HOLD_DAYS
  /\ ~InTopK("A")
  /\ PlannedReason = NoReason

\* ---------------------------------------------------------------------- C30

TrueRanges(h, n) == [i \in 1..ATR_WINDOW |-> TrueRange(h, n - ATR_WINDOW + i)]
Closes(h, n) == [i \in 1..SMA_WINDOW |-> h[n - SMA_WINDOW + i].close]
RECURSIVE Total(_)
Total(q) == IF q = <<>> THEN 0 ELSE Head(q) + Total(Tail(q))
\* mean(q) / close * 100 < 2.5
NormalizedAtrLow(h, n) ==
  Total(TrueRanges(h, n)) * 100 * 10 < 25 * ATR_WINDOW * h[n].close
\* |close - mean(q)| / mean(q) < 0.015
TrendDeviationLow(h, n) ==
  LET total == Total(Closes(h, n))
  IN  Abs(SMA_WINDOW * h[n].close - total) * 1000 < 15 * total
StagnantRow(h, n) ==
  n >= ATR_WINDOW /\ n >= SMA_WINDOW /\ NormalizedAtrLow(h, n) /\ TrendDeviationLow(h, n)

\* C30: on a row with at least 20 rows is_stagnant holds exactly when the
\* normalized ATR is below 2.5 and the trend deviation below 0.015; on a row
\* with at least 3 rows stagnant_3d_count is the number of the last three
\* rows of the symbol with is_stagnant true, between 0 and 3; on a row with
\* at least 5 rows before it is_rs_weak holds exactly when the close is more
\* than 2% below the close five rows earlier.
C30_StagnationIndicator ==
  Computed =>
    /\ RowNo >= SMA_WINDOW =>
          (TodayRow.is_stagnant <=>
             NormalizedAtrLow(Hist, RowNo) /\ TrendDeviationLow(Hist, RowNo))
    /\ RowNo >= STAGNANT_WINDOW =>
          /\ TodayRow.stagnant_3d_count =
                Cardinality({n \in LastThree : StagnantRow(Hist, n)})
          /\ TodayRow.stagnant_3d_count \in 0..STAGNANT_WINDOW
    /\ RowNo > RS_WINDOW =>
          (TodayRow.is_rs_weak <=>
             RetLess(Ret(Hist[RowNo].close, Hist[RowNo - RS_WINDOW].close), -20))

\* a row that is weak and not stagnant itself, after two stagnant rows
C30_TwoOfThree ==
  /\ pc = "exit_rules"
  /\ TodayRow.stagnant_3d_count = 2
  /\ ~TodayRow.is_stagnant
  /\ TodayRow.is_rs_weak

\* ---------------------------------------------------------------------- C31

OwnRow(s) == FrameRow(feed.regime[s], RowNo, feed.ranking[s])

\* C31: every indicator value of a symbol is a function of the symbol's own
\* bars: the true range of its first row uses no other symbol's close, and
\* each column of its row equals the column computed from its own history.
C31_OwnHistoryOnly ==
  Computed =>
    \A s \in Symbols :
      /\ TrueRange(Shifted(feed.regime, s), 1) = TrueRange(feed.regime[s], 1)
      /\ today_data[s] = OwnRow(s)

\* ---------------------------------------------------------------------- C32

DayEnd == pc \in {"next", "done"}
TradingDays(from, to) == Cardinality({d \in 1..dates : from <= d /\ d <= to})

\* C32: at the end of the day its entry is decided a position has days_held
\* 0; at the end of every later trading day on which it is open days_held is
\* the number of trading days from its entry_date to that day inclusive,
\* with or without a bar and with or without a plan; step 2 adds exactly one
\* to every position it leaves open and no other step changes the count; a
\* trade records the count of the end of the previous trading day.
C32_DaysHeldCount ==
  /\ [](DayEnd =>
          \A i \in 1..Len(portfolio) :
            portfolio[i].days_held = TradingDays(portfolio[i].entry_date, dt))
  /\ [](\A k \in 1..Len(trade_log) :
          trade_log[k].days_held =
            TradingDays(trade_log[k].entry_date, trade_log[k].exit_date - 1))
  /\ [][\A i \in 1..Len(portfolio) : \A j \in 1..Len(portfolio') :
          SamePosition(portfolio'[j], portfolio[i]) =>
            portfolio'[j].days_held =
              portfolio[i].days_held + IF pc = "stop_loss" THEN 1 ELSE 0]_vars
  /\ [][\A k \in Len(trade_log) + 1..Len(trade_log') :
          \E i \in 1..Len(portfolio) :
            /\ SamePosition(trade_log'[k], portfolio[i])
            /\ trade_log'[k].days_held = portfolio[i].days_held]_vars

\* a day ends with a position counted for the second time on a day without
\* a bar, and with a trade that recorded a count
C32_CountedWithoutBar ==
  /\ pc = "next"
  /\ \E i \in 1..Len(portfolio) :
       MissingBar(portfolio[i]) /\ portfolio[i].days_held >= 2
  /\ \E k \in 1..Len(trade_log) : trade_log[k].days_held >= 1

\* ---------------------------------------------------------------------- C33

Identity(pos) ==
  [symbol |-> pos.symbol, entry_price |-> pos.entry_price,
   shares |-> pos.shares, entry_date |-> pos.entry_date]
WithoutPlan(pos) ==
  [pos EXCEPT !.exit_planned_date = None, !.exit_reason_planned = NoReason]

\* C33: step 3 changes nothing but exit_planned_date and exit_reason_planned
\* of positions that had no plan: cash, the trade log, the equity curve, the
\* list of open positions and every days_held stay as they were, and a
\* position that had a plan is left as it was. On every step an open
\* position that stays open keeps its symbol, entry_price, shares and
\* entry_date.
C33_RuleFrame ==
  /\ [][pc = "exit_rules" =>
          /\ UNCHANGED <<cash, trade_log, equity_curve, today_data, next_day_data,
                         dt, dates>>
          /\ Len(portfolio') = Len(portfolio)
          /\ \A i \in 1..Len(portfolio) :
                /\ WithoutPlan(portfolio'[i]) = WithoutPlan(portfolio[i])
                /\ Planned(portfolio[i]) => portfolio'[i] = portfolio[i]
                /\ Planned(portfolio'[i]) <=>
                     portfolio'[i].exit_reason_planned # NoReason]_vars
  /\ [][\A i \in 1..Len(portfolio) : \A j \in 1..Len(portfolio') :
          portfolio'[j].symbol = portfolio[i].symbol =>
            Identity(portfolio'[j]) = Identity(portfolio[i])]_vars
  /\ [](\A i, j \in 1..Len(portfolio) :
          portfolio[i].symbol = portfolio[j].symbol => i = j)

\* step 3 has planned one of two open positions and left the other without
\* a plan
C33_OnePlannedOneKept ==
  /\ pc = "entries"
  /\ \E i, j \in 1..Len(portfolio) :
       /\ PlannedToday(portfolio[i]) /\ portfolio[i].days_held >= 1
       /\ ~Planned(portfolio[j]) /\ portfolio[j].days_held >= 1

\* ---------------------------------------------------------------------- C34

DecidedToday(pos) == pos.entry_date = dt + 1

\* C34: every trade has exit_date >= entry_date, and a trade that is not a
\* stop-loss has exit_date > entry_date; a trade logged today closes a
\* position whose entry was decided on an earlier day, and a position whose
\* entry is decided today is created after steps 1 and 2 and is still open
\* when the day ends.
C34_TradeDates ==
  /\ [](\A k \in 1..Len(trade_log) :
          /\ trade_log[k].exit_date >= trade_log[k].entry_date
          /\ trade_log[k].reason # "STOP_LOSS" =>
                trade_log[k].exit_date > trade_log[k].entry_date)
  /\ [](\A i \in 1..Len(portfolio) :
          DecidedToday(portfolio[i]) =>
            /\ pc \in {"equity", "next", "done"}
            /\ \A k \in 1..Len(trade_log) : ~SamePosition(trade_log[k], portfolio[i]))
  /\ [][\A k \in NewTrades :
          /\ pc \in {"planned_exits", "stop_loss"}
          /\ trade_log'[k].exit_date = dt
          /\ trade_log'[k].entry_date <= dt
          /\ \E i \in 1..Len(portfolio) :
                SamePosition(trade_log'[k], portfolio[i]) /\ ~DecidedToday(portfolio[i])]_vars
  /\ [][\A i \in NewPositions :
          pc = "entries" /\ portfolio'[i].entry_date = dt + 1 /\ dt + 1 <= dates]_vars

\* the log holds a stop-loss on the entry day and a planned exit on a later
\* day
C34_StoppedOnEntryDay ==
  \E k, m \in 1..Len(trade_log) :
    /\ trade_log[k].reason = "STOP_LOSS"
    /\ trade_log[k].exit_date = trade_log[k].entry_date
    /\ trade_log[m].reason # "STOP_LOSS"
    /\ trade_log[m].exit_date > trade_log[m].entry_date

\* ---------------------------------------------------------------------- C35

\* the position a new trade closes (symbols are unique among open positions)
ClosedBy(k) ==
  portfolio[CHOOSE i \in 1..Len(portfolio) : portfolio[i].symbol = trade_log'[k].symbol]
\* shares x exit_price x (1 - COMMISSION)
Credit == [k \in NewTrades |->
  LET revenue == ClosedBy(k).shares * trade_log'[k].exit_price
  IN  revenue - Scale(revenue, COMMISSION_PM)]
\* shares x entry_price x (1 + COMMISSION)
Debit == [i \in NewPositions |->
  LET cost == portfolio'[i].shares * portfolio'[i].entry_price
  IN  cost + Scale(cost, COMMISSION_PM)]
OpenCost == [i \in 1..Len(portfolio) |->
  LET cost == portfolio[i].shares * portfolio[i].entry_price
  IN  cost + Scale(cost, COMMISSION_PM)]

\* C35: the run starts with INITIAL_CAPITAL; every step changes cash by the
\* proceeds less commission of the positions it closes, each logged as one
\* trade, less the cost plus commission of the positions it creates, and by
\* nothing else, so a step without a fill leaves cash unchanged; while no
\* position has been closed, cash is INITIAL_CAPITAL less the cost plus
\* commission of the open positions; cash is never negative.
C35_CashAccounting ==
  /\ [](trade_log = <<>> /\ pc \notin {"FileNotFoundError"} =>
          cash = INITIAL_CAPITAL * UNIT - SumOver(1..Len(portfolio), OpenCost))
  /\ [](cash >= 0)
  /\ [][/\ cash' = cash + SumOver(NewTrades, Credit) - SumOver(NewPositions, Debit)
        /\ Len(portfolio') =
             Len(portfolio) - Cardinality(NewTrades) + Cardinality(NewPositions)
        /\ \A k \in NewTrades : Credit[k] < ClosedBy(k).shares * trade_log'[k].exit_price
        /\ \A i \in NewPositions :
             Debit[i] > portfolio'[i].shares * portfolio'[i].entry_price]_vars

\* a day on which cash was credited by an exit and debited by an entry
C35_CreditAndDebit ==
  /\ pc = "equity"
  /\ \E k \in 1..Len(trade_log) : trade_log[k].exit_date = dt
  /\ \E i \in 1..Len(portfolio) : DecidedToday(portfolio[i])
  /\ cash # INITIAL_CAPITAL * UNIT

\* ---------------------------------------------------------------------------
\* backtest_optimized.py: the daily loop of the second script, as functions
\* of the state it shares with the first (same bars, scores and parameters).
\* st is [cash, portfolio, trade_log]; dt, next_dt and today_data are the
\* date and rows of the loop.

\* optimized 149-151 and 181-183
Opt_NetRevenue(shares, exit_price) ==
  LET revenue == shares * exit_price
      commission == Scale(revenue, COMMISSION_PM)
  IN  revenue - commission

\* optimized 154-161 and 185-191: trade_log.append
Opt_Trade(pos, exit_price, reason) ==
  [exit_date |-> dt, symbol |-> pos.symbol, entry_date |-> pos.entry_date,
   entry_price |-> pos.entry_price, exit_price |-> exit_price,
   return |-> Ret(exit_price, pos.entry_price),
   reason |-> reason, days_held |-> pos.days_held]

\* optimized 140-163
RECURSIVE Opt_PlannedExits(_, _)
Opt_PlannedExits(i, st) ==
  IF i = 0 THEN st
  ELSE LET pos == st.portfolio[i]
           sym == pos.symbol
       IN  IF pos.exit_planned_date = dt /\ sym \in DOMAIN today_data
             THEN LET raw_open == today_data[sym].open
                      exit_price == Scale(raw_open, PM - SLIPPAGE_SELL_PM)
                  IN  Opt_PlannedExits(i - 1,
                        [cash |-> st.cash + Opt_NetRevenue(pos.shares, exit_price),
                         portfolio |-> Pop(st.portfolio, i),
                         trade_log |-> Append(st.trade_log,
                                         Opt_Trade(pos, exit_price,
                                                   pos.exit_reason_planned))])
             ELSE Opt_PlannedExits(i - 1, st)

\* optimized 166-194
RECURSIVE Opt_StopLosses(_, _)
Opt_StopLosses(i, st) ==
  IF i = 0 THEN st
  ELSE LET pos == st.portfolio[i]
           sym == pos.symbol
           counted == [st EXCEPT !.portfolio[i].days_held = @ + 1]
       IN  IF sym \notin DOMAIN today_data THEN Opt_StopLosses(i - 1, counted)
           ELSE LET row == today_data[sym]
                    entry == pos.entry_price
                    stop_level == Scale(entry, PM + STOP_LOSS_PM)
                IN  IF row.low <= stop_level
                      THEN LET exit_price == IF row.open <= stop_level
                                               THEN row.open ELSE stop_level
                           IN  Opt_StopLosses(i - 1,
                                 [cash |-> st.cash + Opt_NetRevenue(pos.shares, exit_price),
                                  portfolio |-> Pop(st.portfolio, i),
                                  trade_log |-> Append(st.trade_log,
                                                  Opt_Trade(pos, exit_price, "STOP_LOSS"))])
                      ELSE Opt_StopLosses(i - 1, counted)

\* optimized 208-244: rules A-E; the count column is named stagnant_count_3d
\* in this script's frame
Opt_ExitRule(pos, row, top) ==
  LET sym == pos.symbol
      days == pos.days_held
      ret_close == Ret(row.close, pos.entry_price)
  IN  IF days >= 8 /\ RetLess(ret_close, -20) /\ sym \notin top
        THEN "PERF_FAIL_RELAXED"
      ELSE IF days > 10 /\ row.stagnant_3d_count >= 3
              /\ RetLess(ret_close, 30)
        THEN "STAGNATION_EXIT"
      ELSE IF days > 5 /\ row.is_rs_weak /\ sym \notin top
        THEN "WEAK_RS_EXIT"
      ELSE IF days >= HORIZON
        THEN "TIME_EXIT"
      ELSE IF RetAtLeast(ret_close, TAKE_PROFIT_PM) /\ sym \notin top
        THEN "MODEL_TP"
      ELSE NoReason

\* optimized 197-198
Opt_top_symbols ==
  SeqSet(Head_(SortedByScore(today_data, DOMAIN today_data), TOP_K))

\* optimized 200-244: for pos in portfolio
Opt_PlanExit(pos) ==
  IF pos.exit_planned_date # None THEN pos
  ELSE IF next_dt = None \/ pos.symbol \notin DOMAIN today_data THEN pos
  ELSE LET reason == Opt_ExitRule(pos, today_data[pos.symbol], Opt_top_symbols)
       IN  IF reason = NoReason THEN pos
           ELSE [pos EXCEPT !.exit_planned_date = next_dt,
                            !.exit_reason_planned = reason]

\* optimized 253-271: for sym, row in candidates.iterrows()
RECURSIVE Opt_Entries(_, _, _, _)
Opt_Entries(k, candidates, nd, st) ==
  IF k > Len(candidates) THEN st
  ELSE LET sym == candidates[k] IN
       IF st.free_slots <= 0 THEN st
       ELSE IF \E i \in 1..Len(st.portfolio) : st.portfolio[i].symbol = sym
         THEN Opt_Entries(k + 1, candidates, nd, st)
       ELSE LET seen == [st EXCEPT !.read = @ \cup {sym}] IN
            IF ~nd[sym].bar THEN Opt_Entries(k + 1, candidates, nd, seen)
            ELSE LET entry_price == Scale(nd[sym].open, PM + SLIPPAGE_BUY_PM)
                     shares == st.cash \div (st.free_slots * entry_price)
                     cost == Scale(shares * entry_price, PM + COMMISSION_PM)
                 IN  IF shares > 0 /\ st.cash >= cost
                       THEN Opt_Entries(k + 1, candidates, nd,
                              [cash |-> st.cash - cost,
                               portfolio |-> Append(st.portfolio,
                                 [symbol |-> sym, entry_price |-> entry_price,
                                  shares |-> shares, entry_date |-> next_dt,
                                  days_held |-> 0, exit_planned_date |-> None,
                                  exit_reason_planned |-> NoReason]),
                               free_slots |-> st.free_slots - 1,
                               read |-> seen.read])
                       ELSE Opt_Entries(k + 1, candidates, nd, seen)

\* optimized 274: port_val = sum(shares * (close if the symbol has a row
\* today else entry_price))
RECURSIVE Opt_PortVal(_, _)
Opt_PortVal(pf, i) ==
  IF i = 0 THEN 0
  ELSE Opt_PortVal(pf, i - 1)
       + pf[i].shares * (IF pf[i].symbol \in DOMAIN today_data
                           THEN today_data[pf[i].symbol].close
                           ELSE pf[i].entry_price)

\* ---------------------------------------------------------------------- C36

\* the text labels of the second script
Label(reason) ==
  IF reason = "STAGNATION_EXIT_RELAXED" THEN "STAGNATION_EXIT" ELSE reason
LabelPositions(pf) ==
  [i \in 1..Len(pf) |-> [pf[i] EXCEPT !.exit_reason_planned = Label(@)]]
LabelTrades(tl) == [k \in 1..Len(tl) |-> [tl[k] EXCEPT !.reason = Label(@)]]
\* the state of the second script that stands beside the current state
Beside ==
  [cash |-> cash, portfolio |-> LabelPositions(portfolio),
   trade_log |-> LabelTrades(trade_log)]
\* the rows of the next day as far as step 4 has looked them up
SeenNextDay ==
  [s \in SeqSet(Candidates) |->
     IF s \in DOMAIN next_day_data' THEN next_day_data'[s]
     ELSE [bar |-> FALSE, open |-> 0]]

\* C36: started beside any reachable state of the first script's loop, with
\* the same cash, positions and log up to the label of the stagnation exit,
\* each step of the second script's loop on the same rows ends beside the
\* state the first script's step ends in: same cash, same positions, same
\* trades, same rows looked up and same equity point.
C36_VariantEquivalence ==
  [][CASE pc = "planned_exits" ->
            LET o == Opt_PlannedExits(Len(portfolio), Beside) IN
            /\ o.cash = cash'
            /\ o.portfolio = LabelPositions(portfolio')
            /\ o.trade_log = LabelTrades(trade_log')
       [] pc = "stop_loss" ->
            LET o == Opt_StopLosses(Len(portfolio), Beside) IN
            /\ o.cash = cash'
            /\ o.portfolio = LabelPositions(portfolio')
            /\ o.trade_log = LabelTrades(trade_log')
       [] pc = "exit_rules" ->
            /\ [i \in 1..Len(portfolio) |-> Opt_PlanExit(Beside.portfolio[i])]
                 = LabelPositions(portfolio')
            /\ UNCHANGED <<cash, trade_log>>
       [] pc = "entries" ->
            LET free_slots == MAX_POSITIONS - Len(portfolio) IN
            IF free_slots > 0 /\ next_dt # None
              THEN LET o == Opt_Entries(1, Candidates, SeenNextDay,
                              [cash |-> cash, portfolio |-> Beside.portfolio,
                               free_slots |-> free_slots, read |-> {}])
                   IN  /\ o.cash = cash'
                       /\ o.portfolio = LabelPositions(portfolio')
                       /\ o.read = DOMAIN next_day_data'
                       /\ UNCHANGED trade_log
              ELSE UNCHANGED <<cash, portfolio, trade_log>>
       [] pc = "equity" ->
            /\ equity_curve' = Append(equity_curve,
                 [date |-> dt,
                  equity |-> cash + Opt_PortVal(Beside.portfolio, Len(portfolio))])
            /\ UNCHANGED <<cash, portfolio, trade_log>>
       [] OTHER -> UNCHANGED <<cash, portfolio, trade_log, equity_curve>>]_vars

\* a stagnation exit has been logged beside an open position and two equity
\* points, under the first script's label
C36_StagnationLogged ==
  /\ \E k \in 1..Len(trade_log) : trade_log[k].reason = "STAGNATION_EXIT_RELAXED"
  /\ Len(equity_curve) >= 2


\* ---------------------------------------------------------------------------
\* backtest/engine.py

Flat == position = 0 /\ held_shares = 0
Long == position = 1 /\ cash = 0 /\ held_shares > 0
Alternating ==
  \A k \in 1..Len(trades) : trades[k].type = (IF k % 2 = 1 THEN "BUY" ELSE "SELL")
Recorded ==
  /\ Len(trades') = Len(trades) + 1
  /\ row_i' = row_i + 1
  /\ LET t == trades'[Len(trades')]
         pred == results[row_i + 1].prediction
     IN  /\ \/ t.type = "BUY" /\ pred = 1 /\ position = 0
            \/ t.type = "SELL" /\ pred = 0 /\ position = 1
         /\ t.date = row_i
         /\ t.price = results[row_i + 2].price_open

\* C37: after every iteration of run_backtest the engine is flat (position 0,
\* no shares) or long (position 1, no cash, shares above zero); a BUY is
\* recorded only on prediction 1 while flat and a SELL only on prediction 0
\* while long, so the trades alternate BUY, SELL, BUY, ... from a BUY; the
\* trade decided at row i carries the open of row i + 1; and the step that
\* handles the last row records no trade.
C37_PositionProtocol ==
  /\ [](pc \in {"run_backtest", "returned"} => (Flat \/ Long) /\ Alternating)
  /\ [][pc = "run_backtest" =>
          /\ trades' # trades => Recorded
          /\ pc' = "returned" => trades' = trades
          /\ \A k \in 1..Len(trades') : trades'[k].date < Len(results) - 1]_vars

\* C37 witness: a returned run of three trades that ends long on a last row
\* whose prediction is 0
C37_LastRowIgnored ==
  /\ pc = "returned"
  /\ Len(trades) = 3
  /\ Long
  /\ results[Len(results)].prediction = 0

\* C38: every SELL record carries the number of shares sold, which is the
\* shares field of the BUY record just before it, and that number is above
\* zero.
C38_SellShares ==
  pc \in {"run_backtest", "returned"} =>
    \A k \in 1..Len(trades) :
      trades[k].type = "SELL" =>
        /\ k > 1
        /\ trades[k].shares = trades[k - 1].shares
        /\ trades[k].shares > 0

====
